---- MODULE Spec2Model ----
(***************************************************************************)
(* A model of bricknil's protocol engine.                                  *)
(*                                                                         *)
(*   Spec       the hub's port state machine: the message dispatcher       *)
(*              (message_dispatch.py, messages.py) puts events on the      *)
(*              hub's peripheral_queue, and Hub.peripheral_message_loop    *)
(*              (hub.py) takes them off one at a time.                     *)
(*   MotorSpec  the motor ramp controller (sensor/motor.py) run by curio's *)
(*              cooperative scheduler.                                     *)
(*   MotorFairSpec  MotorSpec with fewer calls and with the fairness of    *)
(*              that scheduler, for the termination of ramps.              *)
(*   HubsSpec   _run_all (bricknil.py) starting the message loops of       *)
(*              several hubs, each with its own queue and peripherals.     *)
(*   DeclSpec   the construction of a hub by its @attach decorators, and   *)
(*              the activation of its peripherals.                         *)
(*   SpeedSpec  Motor.set_speed over the range of its argument.            *)
(*   InfoSpec   the dispatcher's parsers of hub properties and of port    *)
(*              information, and the hub's queries for port meta-data.     *)
(*   DuploSpec  the value updates of a DuploSpeedSensor.                   *)
(*   ConnectSpec  the connection of a hub by BLEventQ.connect, the start  *)
(*              of its message loop, and tasks that send commands before   *)
(*              and after.                                                 *)
(*   TxSpec     the way of an outbound command from Hub.send_message       *)
(*              through BLEventQ.run (ble_queue.py) and the loop of        *)
(*              bleak_interface.py to the hub's characteristic.            *)
(***************************************************************************)
EXTENDS Integers, Sequences, FiniteSets, TLC

\* Python's None, where a port number is expected (Peripheral.port)
None == -1

(***************************************************************************)
(* Bounds of the model                                                     *)
(***************************************************************************)
\* peripherals declared on the hub with @attach
NumPeripherals == 2
\* notifications the transport delivers to MessageDispatch.parse
MaxMsgs == 3

\* port numbers the hub reports in its notifications
Ports == {1, 2, 3}
\* port numbers of virtual (combined) ports, here of ports 1 and 2
VirtualPorts == {3}
\* port numbers a declaration may reserve (port=... of @attach)
DeclPorts == {1}
\* payloads of a PortValue message (two bytes: one 16 bit dataset)
Payloads == {<<7, 1>>}
\* notifications (length, hub id, type, body) that no parser knows: a type
\* without a parser, a hub property 0, an operation 9 on the button
\* property, a mode 3 of port information and a sub-type 9 of mode
\* information (both of port 2)
UnknownMessages ==
    { <<5, 0, 153, 1, 2>>, <<5, 0, 1, 0, 6>>, <<6, 0, 1, 2, 9, 1>>,
      <<6, 0, 67, 2, 3, 0>>, <<7, 0, 68, 2, 0, 9, 0>> }

(***************************************************************************)
(* const.py and the peripheral classes                                     *)
(***************************************************************************)
\* const.DEVICES, the device ids this model's hub reports
DEVICES == (5 :> "Button") @@ (8 :> "Light") @@ (20 :> "Voltage")
\* device ids of attach messages: two registered ids and one that is not
DeviceIds == {8, 20, 3}
\* the port the hub button is piggy-backed on
ButtonPort == 255

\* Peripheral classes that are declared: a VoltageSensor with
\* capabilities=['sense_l'] and a Light, which has no capabilities
Classes == {"VoltageSensor", "Light"}
\* _sensor_id of a class: of these two, and of Button
sensor_id(cls) ==
    IF cls = "VoltageSensor" THEN 20 ELSE IF cls = "Button" THEN 5 ELSE 8
\* the modes (capability.value) of the declared capabilities, in order
Capabilities(cls) == IF cls = "VoltageSensor" THEN <<1>> ELSE <<>>
\* Peripheral._DEFAULT_THRESHOLD
DEFAULT_THRESHOLD == 1

\* tasks of the user's program that call set_speed and ramp_speed on the motor
NumCallers == 2
\* calls these tasks make
MaxCalls == 4
\* ramp tasks that ramp_speed spawns
MaxRamps == 3
\* calls in the behaviours that are checked for termination
FairCalls == 3
\* the port the motor is declared on
MotorPort == 0
\* arguments of set_speed
Speeds == {30, -50}
\* arguments of ramp_speed: target_speed and ramp_time_ms
Targets == {80}
RampTimes == {100, 250}
\* TIME_STEP_MS of Motor.ramp_speed
TIME_STEP_MS == 100

\* commands that are put on Hub.message_queue in TxSpec
MaxSent == 3
\* hubs of the system in HubsSpec
NumHubs == 2
\* @attach decorators on the hub class in DeclSpec
MaxDecl == 2
\* value updates that the hub sends in DeclSpec
MaxUpdates == 2
\* the longest body of a command in TxSpec
MaxBody == 125
\* value updates of the DuploSpeedSensor
MaxDuploUpdates == 3
\* commands that the tasks send in ConnectSpec
MaxSends == 2
\* notifications that the hub sends in ConnectSpec, and their device ids
MaxNotified == 2
NotifiedDevices == {8, 20}
\* calls of set_speed in SpeedSpec, and their arguments
MaxSetSpeeds == 2
SpeedArgs == -130..150
\* the commands: a port output command and the activation of a sensor
Commands == { <<0, 129, 0, 1, 81, 0, 30>>, <<0, 65, 1, 1, 1, 0, 0, 0, 1>>,
              <<0, 2>>, <<0, 129>> \o [k \in 1..MaxBody |-> k] }

VARIABLES
    peripherals,          \* Hub.peripherals, in insertion (declaration) order
    port_to_peripheral,   \* Hub.port_to_peripheral: port -> index in peripherals
    peripheral_queue,     \* Hub.peripheral_queue: events from the dispatcher
    port_info,            \* Hub.port_info: the ports it holds meta-data of
    dispatcher_port_info, \* MessageDispatch.port_info: port -> meta-data
    message_queue,        \* Hub.message_queue: outbound commands
    query_port_info,      \* Hub.query_port_info
    loop_state,           \* "running", or the exception that ended the loop
    handler_calls,        \* times each '<name>_change' handler was awaited
    l,                    \* what the last MessageDispatch.parse returned (its log),
                          \* or the exception it raised
    n_parsed,             \* notifications parsed so far
    speed,                \* Motor.speed
    ramp_in_progress_task,\* Motor.ramp_in_progress_task: a ramp task or None
    message_handler,      \* whether Motor.message_handler is set
    tasks,                \* the curio tasks that use the motor
    n_calls,              \* calls of set_speed and ramp_speed made so far
    in_queue,             \* Bleak.in_queue: requests to the asyncio loop
    written,              \* the values written to the hub's characteristic
    sent,                 \* history: the commands put on Hub.message_queue
    ble_q,                \* BLEventQ: its run task, and the loop of Bleak
    tx,                   \* whether Hub.tx is set (BLEventQ.connect sets it)
    hubs,                 \* Hub.hubs: the hubs of the system, in HubsSpec
    run_all,              \* where _run_all is in its loop over Hub.hubs
    decl                  \* the call of a decorated hub class, in DeclSpec

hub_vars == <<peripherals, port_to_peripheral, peripheral_queue, port_info,
              dispatcher_port_info, message_queue, query_port_info,
              loop_state, handler_calls, l, n_parsed>>

motor_vars == <<speed, ramp_in_progress_task, message_handler, tasks, n_calls>>

tx_vars == <<in_queue, written, sent, ble_q, tx>>

hubs_vars == <<hubs, run_all>>

decl_vars == <<decl>>

vars == <<hub_vars, motor_vars, tx_vars, hubs_vars, decl_vars>>

PIdx == 1..NumPeripherals

(***************************************************************************)
(* Construction                                                            *)
(***************************************************************************)
\* Peripheral.__init__ (and attach.__call__, which checks that a peripheral
\* with a sense_* capability has its handler on the hub class)
\* decl_port is the port of the declaration, which attach.kwargs keeps.
NewPeripheral(cls, port, handler) ==
    [cls |-> cls,
     sensor_name |-> DEVICES[sensor_id(cls)],
     port |-> port,
     decl_port |-> port,
     capabilities |-> Capabilities(cls),
     value |-> [kind |-> "None", v |-> <<>>],
     message_handler |-> FALSE,
     handler |-> handler]

\* The dict of one mode in a port's 'modes': the keys a parser may set,
\* FALSE, None or "" while the key is absent
EmptyModeInfo ==
    [mode |-> None, input |-> FALSE, output |-> FALSE, datasets |-> None,
     dataset_type |-> "", dataset_total_figures |-> None,
     dataset_decimals |-> None]

\* A port's dict in MessageDispatch.port_info, as setdefault(port, {}) makes
\* it: the keys a parser may set, with 0, "", None or <<>> while the key is
\* absent.  modes is the dict of the modes in insertion order, and
\* has_modes tells whether the key 'modes' is there.
EmptyPortInfo ==
    [id |-> 0, name |-> "", virtual |-> <<>>, output |-> None,
     input |-> None, combinable |-> None, synchronizable |-> None,
     has_modes |-> FALSE, modes |-> <<>>, mode_combinations |-> <<>>]

\* An event on the peripheral_queue: (msg, data), data being a port with a
\* device name (attach), a payload (value_change) or the dispatcher's
\* meta-data dict of the port (update_port), which is shared, not copied
Event(msg, port, device_name, msg_bytes) ==
    [msg |-> msg, port |-> port, device_name |-> device_name,
     msg_bytes |-> msg_bytes]

\* the events of the attach message for the hub button that
\* BLEventQ.get_messages parses on every connection
ButtonAttachEvents ==
    << Event("attach", ButtonPort, DEVICES[5], <<>>),
       Event("update_port", ButtonPort, "", <<>>),
       Event("port_detected", ButtonPort, "", <<>>) >>

\* The curio tasks: the ramp tasks (_ramp_speed) and the tasks that call
RampIds == 1..MaxRamps
CallerIds == {100 + c : c \in 1..NumCallers}
TaskIds == RampIds \cup CallerIds

\* A task.  state is its place in curio's kernel: "ready" (in the ready
\* queue), "sleeping" (in sleep), "joining" (in Task.cancel, waiting for
\* wait_for to terminate), "cancelling" (rescheduled with CancelledError),
\* "finished", "cancelled"; a ramp task not spawned yet is "unborn", a caller
\* between two calls is "idle", and "failed" after an AssertionError.
\* pc is where it goes on ("tick": the loop of _ramp_speed, "cancel": after
\* Task.cancel, "send_message": in the loop of Peripheral.send_message), op
\* and speed are the call it is in and the argument of its set_speed,
\* target_speed .. current_step the variables of ramp_speed, and in_loop
\* tells the set_speed in the loop of _ramp_speed from the one after it.
\* seen and returned are history: the ramps that were live when the call
\* was made, and the calls the task has returned from.
NewTask(state) ==
    [state |-> state, pc |-> "", op |-> "", speed |-> 0,
     target_speed |-> 0, ramp_time_ms |-> 0, start_speed |-> 0,
     current_step |-> 0, in_loop |-> FALSE,
     cancel_pending |-> FALSE, cancelled_by |-> None,
     wait_for |-> None, seen |-> {}, returned |-> 0]

\* Motor.__init__, and the tasks before any call
MotorInit ==
    /\ speed = 0
    /\ ramp_in_progress_task = None
    /\ message_handler = FALSE
    /\ tasks = [t \in TaskIds |->
                  IF t \in RampIds THEN NewTask("unborn") ELSE NewTask("idle")]
    /\ n_calls = 0

\* BLEventQ after _run_all has spawned its run and connected the hub: with
\* bleak, get_messages has put its 'notify' request on Bleak.in_queue.
\* run is the state of the task of BLEventQ.run, done the flag of
\* Bleak.asyncio_loop, notify whether start_notify was called and
\* disconnected whether the device was disconnected.
TxInit(USE_BLEAK) ==
    /\ in_queue = IF USE_BLEAK THEN << [msg |-> "notify", val |-> <<>>] >>
                  ELSE <<>>
    /\ written = <<>>
    /\ sent = <<>>
    /\ ble_q = [USE_BLEAK |-> USE_BLEAK, run |-> "running",
                cancel_pending |-> FALSE, done |-> FALSE,
                notify |-> ~USE_BLEAK, disconnected |-> FALSE]
    /\ tx = TRUE

\* The call of a hub class with its @attach decorators.  declared holds
\* the keyword arguments of the @attach lines from the top, n counts the
\* peripherals that the wrappers have created, pending holds those not yet
\* passed to attach_sensor, hub tells whether the Hub object exists,
\* peripherals is its Hub.peripherals in insertion order and error is the
\* exception that ended the call; updates counts the value updates that
\* the hub has sent since, updated is the peripheral of the last one and
\* msg_bytes its payload.  Here: after the call has returned.
Called ==
    [declared |-> <<>>, n |-> 0, pending |-> <<>>, hub |-> TRUE,
     peripherals |-> <<>>, error |-> "", updates |-> 0, updated |-> 0,
     msg_bytes |-> <<>>]

\* One hub, called, and _run_all past its loop over Hub.hubs.
Constructed ==
    /\ hubs = <<>>
    /\ run_all = [pc |-> "join", hub |-> 0]
    /\ decl = Called

\* attach.__call__: the class is decorated bottom-up, and each wrapper_f
\* calls the wrapper below it (o = cls(...)) before its own
\* o.attach_sensor(peripheral).  So the peripheral of the lowest @attach line
\* is inserted first: the i-th entry of Hub.peripherals is the peripheral of
\* the @attach line with this number, counted from the top.
line(i) == NumPeripherals + 1 - i

\* The hub after _run_all has connected it and spawned its message loop
Init ==
    /\ peripherals \in
         [PIdx -> {NewPeripheral(c, p, h) :
                     c \in Classes, p \in DeclPorts \cup {None},
                     h \in BOOLEAN}]
    /\ \A i \in PIdx :
         Len(peripherals[i].capabilities) > 0 => peripherals[i].handler
    /\ port_to_peripheral = <<>>
    /\ peripheral_queue = ButtonAttachEvents
    /\ port_info = {}
    /\ dispatcher_port_info =
         (ButtonPort :> [EmptyPortInfo EXCEPT !.id = 5, !.name = DEVICES[5]])
    /\ message_queue = <<>>
    /\ query_port_info = FALSE
    /\ loop_state = "running"
    /\ handler_calls = [i \in PIdx |-> 0]
    /\ l = [text |-> "Attached IO Port", port |-> ButtonPort]
    /\ n_parsed = 0
    /\ MotorInit
    /\ TxInit(FALSE)
    /\ Constructed

(***************************************************************************)
(* Helpers                                                                 *)
(***************************************************************************)
Min(S) == CHOOSE x \in S : \A y \in S : x <= y

\* d[k] = v of a Python dict
Put(d, k, v) == [x \in DOMAIN d \cup {k} |-> IF x = k THEN v ELSE d[x]]

\* Peripheral._convert_bytes: a little-endian unsigned value of 1, 2 or 4 bytes
_convert_bytes(msg_bytes, byte_count) ==
    IF byte_count = 1 THEN msg_bytes[1]
    ELSE IF byte_count = 2 THEN msg_bytes[1] + 256 * msg_bytes[2]
    ELSE IF byte_count = 4
         THEN msg_bytes[1] + 256 * msg_bytes[2] + 65536 * msg_bytes[3]
              + 16777216 * msg_bytes[4]
    ELSE None

(***************************************************************************)
(* The message dispatcher (the transport's notification callback)          *)
(***************************************************************************)
\* AttachedIOMessage._add_port_info: the port's dict is created on first use
\* and updated in place afterwards
_add_port_info(info, port, info_key, info_val) ==
    LET port_info_item == IF port \in DOMAIN info THEN info[port]
                          ELSE EmptyPortInfo
    IN  Put(info, port, [port_info_item EXCEPT ![info_key] = info_val])

\* a message_attach_to_hub that would announce the port before the attach
message_attach_to_hub_detected_first(device_name, port) ==
    << Event("port_detected", port, "", <<>>),
       Event("attach", port, device_name, <<>>),
       Event("update_port", port, "", <<>>) >>

\* MessageDispatch.message_attach_to_hub: the three events of an attach
message_attach_to_hub(device_name, port) ==
    << Event("attach", port, device_name, <<>>),
       Event("update_port", port, "", <<>>),
       Event("port_detected", port, "", <<>>) >>

\* MessageDispatch.message_update_value_to_peripheral
message_update_value_to_peripheral(port, value) ==
    << Event("value_change", port, "", value) >>

\* a parse of event 0 that would unbind the peripheral of the port
ParseDetachedIOUnbinding(port) ==
    /\ l' = [text |-> "Detached IO Port", port |-> port]
    /\ port_to_peripheral' =
         [p \in DOMAIN port_to_peripheral \ {port} |-> port_to_peripheral[p]]
    /\ peripherals' =
         [i \in DOMAIN peripherals |->
            IF peripherals[i].port = port
            THEN [peripherals[i] EXCEPT !.port = None]
            ELSE peripherals[i]]
    /\ UNCHANGED <<peripheral_queue, port_info, dispatcher_port_info>>

\* AttachedIOMessage.parse, event 0: a detach is logged and nothing else
ParseDetachedIO(port) ==
    /\ l' = [text |-> "Detached IO Port", port |-> port]
    /\ UNCHANGED <<peripherals, port_to_peripheral, peripheral_queue,
                   port_info, dispatcher_port_info>>

\* a parse of events 1 and 2 that would record the device id of the port
\* before it looks the id up in DEVICES
ParseAttachedIORecording(port, event, device_id, port0, port1) ==
    LET info1 == _add_port_info(dispatcher_port_info, port, "id", device_id)
    IN  IF device_id \notin DOMAIN DEVICES
        THEN /\ dispatcher_port_info' = info1
             /\ l' = [text |-> "AssertionError", port |-> port]
             /\ UNCHANGED <<peripherals, port_to_peripheral, peripheral_queue,
                            port_info>>
        ELSE /\ dispatcher_port_info' =
                  _add_port_info(info1, port, "name", DEVICES[device_id])
             /\ peripheral_queue' =
                  peripheral_queue \o message_attach_to_hub(DEVICES[device_id], port)
             /\ l' = [text |-> "Attached IO Port", port |-> port]
             /\ UNCHANGED <<peripherals, port_to_peripheral, port_info>>

\* AttachedIOMessage.parse, events 1 (attach) and 2 (virtual attach)
ParseAttachedIO(port, event, device_id, port0, port1) ==
    IF device_id \notin DOMAIN DEVICES
    THEN \* the assert fails: parse raises before anything is recorded, and
         \* returns no log
         /\ l' = [text |-> "AssertionError", port |-> port]
         /\ UNCHANGED <<peripherals, port_to_peripheral, peripheral_queue,
                        port_info, dispatcher_port_info>>
    ELSE LET device_name == DEVICES[device_id]
             info1 == _add_port_info(dispatcher_port_info, port, "id", device_id)
             info2 == _add_port_info(info1, port, "name", device_name)
             info3 == IF event = 2
                      THEN _add_port_info(info2, port, "virtual", <<port0, port1>>)
                      ELSE info2
         IN  /\ dispatcher_port_info' = info3
             /\ peripheral_queue' =
                  peripheral_queue \o message_attach_to_hub(device_name, port)
             /\ l' = [text |-> IF event = 1 THEN "Attached IO Port"
                                ELSE "Attached VirtualIO Port",
                       port |-> port]
             /\ UNCHANGED <<peripherals, port_to_peripheral, port_info>>

\* MessageDispatch.parse of an AttachedIO message (type 0x04)
ParseAttached ==
    /\ n_parsed < MaxMsgs
    /\ n_parsed' = n_parsed + 1
    /\ \E port \in Ports, event \in {0, 1, 2}, device_id \in DeviceIds :
         /\ event = 2 => port \in VirtualPorts
         /\ IF event = 0 THEN ParseDetachedIO(port)
            ELSE ParseAttachedIO(port, event, device_id, 1, 2)
    /\ UNCHANGED <<message_queue, query_port_info, loop_state, handler_calls>>

\* MessageDispatch.parse of a PortValue message (types 0x45 and 0x46)
ParsePortValue ==
    /\ n_parsed < MaxMsgs
    /\ n_parsed' = n_parsed + 1
    /\ \E port \in Ports, msg_bytes \in Payloads :
         /\ peripheral_queue' =
              peripheral_queue \o message_update_value_to_peripheral(port, msg_bytes)
         /\ l' = [text |-> "Port changed value", port |-> port]
    /\ UNCHANGED <<peripherals, port_to_peripheral, port_info,
                   dispatcher_port_info, message_queue, query_port_info,
                   loop_state, handler_calls>>

\* Python's hex() of a byte
HexDigits == <<"0", "1", "2", "3", "4", "5", "6", "7",
               "8", "9", "a", "b", "c", "d", "e", "f">>
hex(c) == "0x" \o (IF c >= 16 THEN HexDigits[(c \div 16) + 1] ELSE "")
               \o HexDigits[(c % 16) + 1]

\* sep.join(strs)
RECURSIVE join(_, _)
join(sep, strs) ==
    IF strs = <<>> THEN ""
    ELSE IF Len(strs) = 1 THEN strs[1]
    ELSE strs[1] \o sep \o join(sep, Tail(strs))

\* MessageDispatch._parse_msg_bytes
_parse_msg_bytes(msg_bytes) ==
    join(":", [k \in 1..Len(msg_bytes) |-> hex(msg_bytes[k])])

\* Message.parsers: the message types that have a parser
parsers == {1, 4, 67, 68, 69, 70, 130}

\* HubPropertiesMessage.prop_names and operation_names
prop_names ==
    (1 :> "Advertising Name") @@ (2 :> "Button") @@ (3 :> "FW Version")
    @@ (4 :> "HW Version") @@ (5 :> "RSSI") @@ (6 :> "Battery Voltage")
    @@ (7 :> "Battery Type") @@ (8 :> "Manufacturer Name")
    @@ (9 :> "Radio FW Version") @@ (10 :> "LEGO Wireles Protocol Version")
    @@ (11 :> "System Type ID") @@ (12 :> "HW Network ID")
    @@ (13 :> "Primary MAC address") @@ (14 :> "Seconary MAC address")
    @@ (15 :> "HW Network Family")
operation_names ==
    (1 :> "Set (downstream)") @@ (2 :> "Enable Updates (Downstream)")
    @@ (3 :> "Disable Updates (Downstream)") @@ (4 :> "Reset (Downstream)")
    @@ (5 :> "Request Update (Downstream)") @@ (6 :> "Update (Upstream)")

\* PortModeInformationMessage.parse: the keys of mode_types
mode_types == {0, 1, 2, 3, 4, 5, 128}

\* a parse that would skip the length byte only
split_header_after_length(msg) ==
    [msg_type |-> msg[2], msg_bytes |-> SubSeq(msg, 3, Len(msg))]

\* MessageDispatch.parse: the length and the hub id are skipped, the type
\* is popped and the rest is the body that the parser of the type gets
split_header(msg) ==
    [msg_type |-> msg[3], msg_bytes |-> SubSeq(msg, 4, Len(msg))]

\* MessageDispatch.parse and the parsers of HubProperties, PortInformation
\* and PortModeInformation messages, up to where they raise
\* UnknownMessageError: whether they do, the log l so far, and the port
\* whose entry of dispatcher.port_info they have created with setdefault
parse_header(msg) ==
    LET msg_type == split_header(msg).msg_type
        body == split_header(msg).msg_bytes
    IN  IF msg_type \notin parsers
        THEN [raised |-> TRUE, l |-> <<>>, port |-> None]
        ELSE IF msg_type = 1
        THEN IF body[1] \notin DOMAIN prop_names
             THEN [raised |-> TRUE, l |-> <<"Hub property: ">>, port |-> None]
             ELSE IF body[2] \notin DOMAIN operation_names
             THEN [raised |-> TRUE,
                   l |-> <<"Hub property: ", prop_names[body[1]]>>,
                   port |-> None]
             ELSE [raised |-> FALSE,
                   l |-> <<"Hub property: ", prop_names[body[1]],
                           operation_names[body[2]]>>,
                   port |-> None]
        ELSE IF msg_type = 67
        THEN [raised |-> body[2] \notin {1, 2},
              l |-> << "Port " \o ToString(body[1]) \o " Mode "
                         \o ToString(body[2]) \o ":" >>,
              port |-> body[1]]
        ELSE IF msg_type = 68
        THEN [raised |-> body[3] \notin mode_types,
              l |-> << "MODE INFO Port:" \o ToString(body[1]) \o " Mode:"
                         \o ToString(body[2]) >>,
              port |-> body[1]]
        ELSE [raised |-> FALSE, l |-> <<>>, port |-> None]

\* dispatcher.port_info.setdefault(port, {})
setdefault(info, port) ==
    IF port = None \/ port \in DOMAIN info THEN info
    ELSE Put(info, port, EmptyPortInfo)

\* port_info.setdefault('modes', {})
setdefault_modes(port_info_item) == [port_info_item EXCEPT !.has_modes = TRUE]

\* modes_info.setdefault(i, {})
modes_setdefault(modes_info, i) ==
    IF \E k \in 1..Len(modes_info) : modes_info[k].mode = i THEN modes_info
    ELSE Append(modes_info, [EmptyModeInfo EXCEPT !.mode = i])

\* what the parsers of port information (0x43) and of mode information
\* (0x44) have done to the dispatcher's port_info when they raise
\* UnknownMessageError: the setdefault of the port and of its 'modes', and
\* for a mode information that of the mode
setdefaults_before_raise(info, msg) ==
    LET port == parse_header(msg).port
        item == setdefault_modes(setdefault(info, port)[port])
    IN  IF port = None THEN info
        ELSE IF split_header(msg).msg_type = 68
        THEN Put(info, port,
                 [item EXCEPT !.modes =
                    modes_setdefault(@, split_header(msg).msg_bytes[2])])
        ELSE Put(info, port, item)

\* a parse that would send the port's meta-data to the hub before it looks
\* at the mode or the sub-type of the message
ParseUnknownMessageSending(msg) ==
    LET r == parse_header(msg)
    IN  /\ r.raised
        /\ l' = [text |-> join(" ", Append(r.l, _parse_msg_bytes(msg))),
                 port |-> r.port]
        /\ dispatcher_port_info' = setdefaults_before_raise(dispatcher_port_info, msg)
        /\ peripheral_queue' =
             IF r.port = None THEN peripheral_queue
             ELSE Append(peripheral_queue, Event("update_port", r.port, "", <<>>))
        /\ UNCHANGED <<peripherals, port_to_peripheral, port_info>>

\* MessageDispatch.parse of a message that raises UnknownMessageError: the
\* hex of the whole message is appended to the log
ParseUnknownMessage(msg) ==
    LET r == parse_header(msg)
    IN  /\ r.raised
        /\ l' = [text |-> join(" ", Append(r.l, _parse_msg_bytes(msg))),
                 port |-> r.port]
        /\ dispatcher_port_info' = setdefaults_before_raise(dispatcher_port_info, msg)
        /\ UNCHANGED <<peripherals, port_to_peripheral, peripheral_queue,
                       port_info>>

\* MessageDispatch.parse of a notification that no parser knows
ParseUnknown ==
    /\ n_parsed < MaxMsgs
    /\ n_parsed' = n_parsed + 1
    /\ \E msg \in UnknownMessages : ParseUnknownMessage(msg)
    /\ UNCHANGED <<message_queue, query_port_info, loop_state, handler_calls>>

(***************************************************************************)
(* The peripheral (sensor/peripheral.py)                                   *)
(***************************************************************************)
\* Peripheral.datasets of the one capability: (number of datasets, bytes each)
datasets(cls) == IF cls = "Button" THEN <<1, 1>> ELSE <<1, 2>>

\* an activate_updates that would send nothing
NoActivationCommands(peripheral, port) == <<>>

\* Peripheral.activate_updates: the commands it sends
ActivationCommands(peripheral, port) ==
    IF peripheral.cls = "Button"
    THEN \* Button.activate_updates: the button reports of the hub
         << <<0, 1, 2, 2>> >>
    ELSE IF Len(peripheral.capabilities) = 0 THEN <<>>
    ELSE << <<0, 65, port, peripheral.capabilities[1], DEFAULT_THRESHOLD,
              0, 0, 0, 1>> >>

\* Peripheral.activate_updates: self.value = {cap: [None] * n}
ActivatedValue(peripheral) ==
    IF Len(peripheral.capabilities) = 0 /\ peripheral.cls # "Button"
    THEN peripheral.value
    ELSE [kind |-> "unset", v |-> <<>>]

\* Peripheral.update_value
update_value(peripheral, msg_bytes) ==
    IF Len(peripheral.capabilities) = 0
    THEN [kind |-> "raw", v |-> msg_bytes]
    ELSE LET n == datasets(peripheral.cls)[1]
             w == datasets(peripheral.cls)[2]
         IN  [kind |-> IF n = 1 THEN "scalar" ELSE "list",
              v |-> [i \in 1..n |->
                       _convert_bytes(SubSeq(msg_bytes, (i - 1) * w + 1, i * w), w)]]

(***************************************************************************)
(* The hub (hub.py)                                                        *)
(***************************************************************************)
\* a first loop that would test the port of the declaration only
DeclaredOn(port) == {i \in PIdx : peripherals[i].decl_port = port}

\* connect_peripheral_to_port, first loop: the peripherals on this port
ReservedFor(port) == {i \in PIdx : peripherals[i].port = port}

\* the second loop without its `peripheral.port == None` test
UnassignedOrBound(device_name) ==
    {i \in PIdx : peripherals[i].sensor_name = device_name}

\* connect_peripheral_to_port, second loop: the peripherals of this device
\* that have no port yet
Unassigned(device_name) ==
    {i \in PIdx : /\ peripherals[i].sensor_name = device_name
                  /\ peripherals[i].port = None}

\* `for peripheral_name, peripheral in self.peripherals.items()` returns at
\* the first match: a dict iterates in insertion order
FirstMatch(S) == Min(S)

\* connect_peripheral_to_port without its first loop
connect_without_reservation(device_name, port) ==
    IF Unassigned(device_name) # {}
    THEN [raised |-> FALSE, peripheral |-> FirstMatch(Unassigned(device_name))]
    ELSE [raised |-> FALSE, peripheral |-> None]

\* connect_peripheral_to_port whose second loop takes any port-less peripheral
connect_any_device(device_name, port) ==
    LET free == {i \in PIdx : peripherals[i].port = None}
    IN  IF ReservedFor(port) # {}
        THEN LET i == FirstMatch(ReservedFor(port))
             IN  IF device_name = peripherals[i].sensor_name
                 THEN [raised |-> FALSE, peripheral |-> i]
                 ELSE [raised |-> TRUE, peripheral |-> None]
        ELSE IF free # {}
             THEN [raised |-> FALSE, peripheral |-> FirstMatch(free)]
             ELSE [raised |-> FALSE, peripheral |-> None]

\* Hub.connect_peripheral_to_port: the peripheral it returns (None for none)
\* or the error it raises
connect_peripheral_to_port(device_name, port) ==
    IF ReservedFor(port) # {}
    THEN LET i == FirstMatch(ReservedFor(port))
         IN  IF device_name = peripherals[i].sensor_name
             THEN [raised |-> FALSE, peripheral |-> i]
             ELSE [raised |-> TRUE, peripheral |-> None]
    ELSE IF Unassigned(device_name) # {}
         THEN [raised |-> FALSE, peripheral |->
                                   FirstMatch(Unassigned(device_name))]
         ELSE [raised |-> FALSE, peripheral |-> None]

\* what Hub.port_info holds: `self.port_info[port] = info` stores the dict
\* of the event, which is the dispatcher's dict of the port and no copy
HubPortInfo == [p \in port_info |-> dispatcher_port_info[p]]

\* Hub._get_port_info, info_types.values() in the order of the dict
info_types == <<0, 128, 1, 2, 3, 4, 5>>

\* Hub._get_port_info, the loop over modes.keys(): a query of each type of
\* information for each mode
mode_queries(port, modes) ==
    [k \in 1..(Len(modes) * Len(info_types)) |->
       <<0, 34, port, modes[((k - 1) \div Len(info_types)) + 1].mode,
         info_types[((k - 1) % Len(info_types)) + 1]>>]

\* a _get_port_info that would ask for the mode combinations of every port
_get_port_info_always_combination(port, msg) ==
    IF msg = "port_detected" THEN << <<0, 33, port, 1>> >>
    ELSE IF msg = "port_info_received"
    THEN << <<0, 33, port, 2>> >> \o mode_queries(port, HubPortInfo[port].modes)
    ELSE <<>>

\* Hub._get_port_info: the commands it sends
_get_port_info(port, msg) ==
    IF msg = "port_detected" THEN << <<0, 33, port, 1>> >>
    ELSE IF msg = "port_info_received"
    THEN (IF HubPortInfo[port].combinable \notin {None, 0}
          THEN << <<0, 33, port, 2>> >> ELSE <<>>)
         \o mode_queries(port, HubPortInfo[port].modes)
    ELSE <<>>

\* the events that the loop takes with msg.startswith('port')
port_messages ==
    {"port_detected", "port_info_received", "port_mode_info_received",
     "port_combination_info_received"}

LoopReady(msg) ==
    /\ loop_state = "running"
    /\ peripheral_queue # <<>>
    /\ Head(peripheral_queue).msg = msg

\* peripheral_message_loop, msg == 'attach'
LoopAttach ==
    /\ LoopReady("attach")
    /\ peripheral_queue' = Tail(peripheral_queue)
    /\ LET ev == Head(peripheral_queue)
           r == connect_peripheral_to_port(ev.device_name, ev.port)
           i == r.peripheral
       IN  IF r.raised
           THEN /\ loop_state' = "DifferentPeripheralOnPortError"
                /\ UNCHANGED <<peripherals, port_to_peripheral, message_queue>>
           ELSE IF i = None
           THEN UNCHANGED <<peripherals, port_to_peripheral, message_queue,
                            loop_state>>
           ELSE /\ port_to_peripheral' = Put(port_to_peripheral, ev.port, i)
                /\ peripherals' =
                     [peripherals EXCEPT
                        ![i].port = ev.port,
                        ![i].message_handler = TRUE,
                        ![i].value = ActivatedValue(peripherals[i])]
                /\ message_queue' =
                     message_queue \o ActivationCommands(peripherals[i], ev.port)
                /\ UNCHANGED loop_state
    /\ UNCHANGED <<port_info, dispatcher_port_info, query_port_info,
                   handler_calls, l, n_parsed>>

\* peripheral_message_loop, msg == 'value_change'
LoopValueChange ==
    /\ LoopReady("value_change")
    /\ peripheral_queue' = Tail(peripheral_queue)
    /\ LET ev == Head(peripheral_queue)
       IN  IF ev.port \notin DOMAIN port_to_peripheral
           THEN \* self.port_to_peripheral[port] raises
                /\ loop_state' = "KeyError"
                /\ UNCHANGED <<peripherals, handler_calls>>
           ELSE LET i == port_to_peripheral[ev.port]
                IN  /\ peripherals' =
                         [peripherals EXCEPT
                            ![i].value = update_value(peripherals[i], ev.msg_bytes)]
                    /\ IF peripherals[i].handler
                       THEN /\ handler_calls' =
                                 [handler_calls EXCEPT ![i] = @ + 1]
                            /\ UNCHANGED loop_state
                       ELSE \* getattr(self, handler_name) raises
                            /\ loop_state' = "AttributeError"
                            /\ UNCHANGED handler_calls
    /\ UNCHANGED <<port_to_peripheral, port_info, dispatcher_port_info,
                   message_queue, query_port_info, l, n_parsed>>

\* a loop that would serve the first 'update_port' event of the queue ahead
\* of the events before it
LoopUpdatePortOutOfOrder ==
    /\ loop_state = "running"
    /\ \E k \in 1..Len(peripheral_queue) :
         /\ peripheral_queue[k].msg = "update_port"
         /\ \A j \in 1..(k - 1) : peripheral_queue[j].msg # "update_port"
         /\ peripheral_queue' =
              SubSeq(peripheral_queue, 1, k - 1)
                \o SubSeq(peripheral_queue, k + 1, Len(peripheral_queue))
         /\ port_info' = port_info \cup {peripheral_queue[k].port}
    /\ UNCHANGED <<peripherals, port_to_peripheral, dispatcher_port_info,
                   message_queue, query_port_info, loop_state, handler_calls,
                   l, n_parsed>>

\* peripheral_message_loop, msg == 'update_port'
LoopUpdatePort ==
    /\ LoopReady("update_port")
    /\ peripheral_queue' = Tail(peripheral_queue)
    /\ port_info' = port_info \cup {Head(peripheral_queue).port}
    /\ UNCHANGED <<peripherals, port_to_peripheral, dispatcher_port_info,
                   message_queue, query_port_info, loop_state, handler_calls,
                   l, n_parsed>>

\* peripheral_message_loop, msg.startswith('port')
LoopPort ==
    /\ loop_state = "running"
    /\ peripheral_queue # <<>>
    /\ Head(peripheral_queue).msg \in port_messages
    /\ peripheral_queue' = Tail(peripheral_queue)
    /\ LET ev == Head(peripheral_queue)
       IN  IF ~query_port_info
           THEN UNCHANGED <<message_queue, loop_state>>
           ELSE IF ev.msg = "port_info_received" /\ ev.port \notin port_info
           THEN \* self.port_info[port] raises
                /\ loop_state' = "KeyError"
                /\ UNCHANGED message_queue
           ELSE /\ message_queue' =
                     message_queue \o _get_port_info(ev.port, ev.msg)
                /\ UNCHANGED loop_state
    /\ UNCHANGED <<peripherals, port_to_peripheral, port_info,
                   dispatcher_port_info, query_port_info, handler_calls,
                   l, n_parsed>>

Next ==
    \/ ParseAttached /\ UNCHANGED <<motor_vars, tx_vars, hubs_vars, decl_vars>>
    \/ ParsePortValue /\ UNCHANGED <<motor_vars, tx_vars, hubs_vars, decl_vars>>
    \/ ParseUnknown /\ UNCHANGED <<motor_vars, tx_vars, hubs_vars, decl_vars>>
    \/ LoopAttach /\ UNCHANGED <<motor_vars, tx_vars, hubs_vars, decl_vars>>
    \/ LoopValueChange /\ UNCHANGED <<motor_vars, tx_vars, hubs_vars, decl_vars>>
    \/ LoopUpdatePort /\ UNCHANGED <<motor_vars, tx_vars, hubs_vars, decl_vars>>
    \/ LoopPort /\ UNCHANGED <<motor_vars, tx_vars, hubs_vars, decl_vars>>

Spec == Init /\ [][Next]_vars

(***************************************************************************)
(* Properties of the hub's port state machine, checked under Spec          *)
(***************************************************************************)
\* the message loop takes an 'attach' event off the queue
AttachStep ==
    /\ LoopReady("attach")
    /\ peripheral_queue' = Tail(peripheral_queue)

\* the message loop takes a 'value_change' event off the queue
ValueChangeStep ==
    /\ LoopReady("value_change")
    /\ peripheral_queue' = Tail(peripheral_queue)

\* the dispatcher parses a DetachedIO notification
DetachStep ==
    /\ n_parsed' = n_parsed + 1
    /\ l'.text = "Detached IO Port"

\* C1: port_to_peripheral maps every bound port to one declared peripheral,
\* no peripheral is stored under two port keys, and the peripheral stored
\* under port p has peripheral.port == p.
C1_BoundPortsConsistent ==
    /\ \A p \in DOMAIN port_to_peripheral :
         /\ port_to_peripheral[p] \in PIdx
         /\ peripherals[port_to_peripheral[p]].port = p
    /\ \A p, q \in DOMAIN port_to_peripheral :
         port_to_peripheral[p] = port_to_peripheral[q] => p = q

\* two ports are bound, to two peripherals
C1_Witness == Cardinality(DOMAIN port_to_peripheral) = 2

\* C6: an attach of device type X on a port p that a declared peripheral
\* has as its port binds that peripheral if its type is X, whatever
\* port-less peripherals of type X there are, and otherwise raises
\* DifferentPeripheralOnPortError and records no binding.
C6_ReservedPort ==
    [][ (AttachStep /\ ReservedFor(Head(peripheral_queue).port) # {}) =>
          LET ev == Head(peripheral_queue)
              i == CHOOSE x \in ReservedFor(ev.port) :
                     \A y \in ReservedFor(ev.port) : x <= y
          IN  IF peripherals[i].sensor_name = ev.device_name
              THEN /\ ev.port \in DOMAIN port_to_peripheral'
                   /\ port_to_peripheral'[ev.port] = i
                   /\ peripherals'[i].port = ev.port
                   /\ \A j \in PIdx \ {i} :
                        peripherals'[j].port = peripherals[j].port
                   /\ loop_state' = "running"
              ELSE /\ loop_state' = "DifferentPeripheralOnPortError"
                   /\ UNCHANGED <<port_to_peripheral, peripherals>> ]_vars

\* port 1 went to the peripheral declared on it although a port-less
\* peripheral of the same type was there, and a later attach of another
\* type on a reserved port raised
C6_Witness ==
    /\ loop_state = "DifferentPeripheralOnPortError"
    /\ \E i, j \in PIdx :
         /\ i # j
         /\ 1 \in DOMAIN port_to_peripheral
         /\ port_to_peripheral[1] = i
         /\ peripherals[i].decl_port = 1
         /\ peripherals[j].port = None
         /\ peripherals[j].sensor_name = peripherals[i].sensor_name

\* the peripherals of a device type that are declared without a port
PortLess(device_name) ==
    {i \in PIdx : /\ peripherals[i].sensor_name = device_name
                  /\ peripherals[i].decl_port = None}

\* C7: with k peripherals of one device type declared without a port, the
\* i-th attach of that type on an unreserved port binds the i-th of them in
\* the order of their declarations, and an attach after the k-th binds
\* nothing.
C7_DeclarationOrder ==
    [][ (AttachStep /\ ReservedFor(Head(peripheral_queue).port) = {}) =>
          LET ev == Head(peripheral_queue)
              K == PortLess(ev.device_name)
              n == Cardinality({i \in K : peripherals[i].port # None})
          IN  IF n < Cardinality(K)
              THEN \E i \in K :
                     /\ Cardinality({j \in K : line(j) < line(i)}) = n
                     /\ ev.port \in DOMAIN port_to_peripheral'
                     /\ port_to_peripheral'[ev.port] = i
                     /\ peripherals'[i].port = ev.port
              ELSE UNCHANGED <<port_to_peripheral, peripherals>> ]_vars

C9_UnboundValueDropped ==
    [][ (ValueChangeStep
         /\ Head(peripheral_queue).port \notin DOMAIN port_to_peripheral) =>
          /\ loop_state' = "running"
          /\ UNCHANGED <<peripherals, handler_calls>> ]_vars

\* C10: an attach event on a port no peripheral has, of a device type no
\* port-less peripheral has, is dropped: no binding, no activation command,
\* and the loop goes on.
C10_UnmatchedAttachDropped ==
    [][ (/\ AttachStep
         /\ ReservedFor(Head(peripheral_queue).port) = {}
         /\ Unassigned(Head(peripheral_queue).device_name) = {}) =>
          /\ UNCHANGED <<port_to_peripheral, peripherals, message_queue>>
          /\ loop_state' = "running" ]_vars

\* the events of an attach on a port of this model were processed, the port
\* is not bound and the loop runs
C10_Witness ==
    /\ loop_state = "running"
    /\ \E p \in port_info \cap Ports : p \notin DOMAIN port_to_peripheral

\* the dispatcher's parse of an attach or virtual attach raises on a device
\* id that const.DEVICES does not have
UnknownDeviceStep ==
    /\ n_parsed' = n_parsed + 1
    /\ l'.text = "AssertionError"

\* C11: an attach or virtual-attach message whose device id is not in
\* DEVICES raises before anything is recorded: no event is put on the hub's
\* peripheral_queue, the dispatcher's port_info is unchanged and no
\* peripheral is bound.
C11_UnknownDeviceRecordsNothing ==
    [][ UnknownDeviceStep =>
          UNCHANGED <<peripheral_queue, dispatcher_port_info, port_info,
                      port_to_peripheral, peripherals>> ]_vars

\* the last notification was an attach of an unknown device on a port that
\* a known device had been attached to and bound on before
C11_Witness ==
    /\ l.text = "AssertionError"
    /\ l.port \in DOMAIN dispatcher_port_info
    /\ l.port \in DOMAIN port_to_peripheral

\* the message loop takes an 'attach' event off the queue and binds
\* peripheral i, a peripheral of the device of the event, to its port
BindStep(i) ==
    /\ AttachStep
    /\ Head(peripheral_queue).port \in DOMAIN port_to_peripheral'
    /\ port_to_peripheral'[Head(peripheral_queue).port] = i
    /\ peripherals[i].sensor_name = Head(peripheral_queue).device_name

\* peripheral i, declared without a port, has been bound to port p
BoundPortLess(i, p) ==
    /\ peripherals[i].decl_port = None
    /\ peripherals[i].port = p
    /\ p \in DOMAIN port_to_peripheral
    /\ port_to_peripheral[p] = i

\* C36: a port p to which an attach has bound a peripheral declared without
\* a port is reserved for that peripheral from then on: a later attach on p
\* of the same device type binds the same peripheral again and activates
\* it again (no other port-less peripheral of the type is taken), and a
\* later attach on p of another device type raises
\* DifferentPeripheralOnPortError and changes no binding.
C36_BoundPortReserved ==
    [][ \A i \in PIdx :
          (AttachStep /\ BoundPortLess(i, Head(peripheral_queue).port)) =>
             LET ev == Head(peripheral_queue)
             IN  IF peripherals[i].sensor_name = ev.device_name
                 THEN /\ port_to_peripheral' = port_to_peripheral
                      /\ peripherals'[i].port = ev.port
                      /\ peripherals'[i].message_handler
                      /\ \A j \in PIdx \ {i} : peripherals'[j] = peripherals[j]
                      /\ message_queue' =
                           message_queue
                             \o (IF Len(peripherals[i].capabilities) = 0
                                 THEN <<>>
                                 ELSE << <<0, 65, ev.port,
                                           peripherals[i].capabilities[1],
                                           DEFAULT_THRESHOLD, 0, 0, 0, 1>> >>)
                      /\ Len(peripherals[i].capabilities) > 0 =>
                           peripherals'[i].value.kind = "unset"
                      /\ loop_state' = "running"
                 ELSE /\ loop_state' = "DifferentPeripheralOnPortError"
                      /\ UNCHANGED <<port_to_peripheral, peripherals,
                                     message_queue>> ]_vars

\* a voltage sensor declared without a port was bound to a port and
\* activated twice there, while another one stayed without a port, and a
\* third attach on that port, of another device type, raised
C36_Witness ==
    \E i, j \in PIdx : \E p \in Ports :
       /\ BoundPortLess(i, p)
       /\ Len(peripherals[i].capabilities) = 1
       /\ j # i
       /\ peripherals[j].sensor_name = peripherals[i].sensor_name
       /\ peripherals[j].port = None
       /\ message_queue = << <<0, 65, p, 1, 1, 0, 0, 0, 1>>,
                             <<0, 65, p, 1, 1, 0, 0, 0, 1>> >>
       /\ loop_state = "DifferentPeripheralOnPortError"

\* C12: when an attach event binds a peripheral, the hub sets that
\* peripheral's message handler and runs its activation, which puts its
\* activation command on the message queue, in the step that takes the event
\* off the queue and so before any later event is taken; and a peripheral
\* that has its message handler (that was activated) has a port.
C12_ActivatedOnBind ==
    /\ [][ \A i \in PIdx :
             BindStep(i) =>
               LET port == Head(peripheral_queue).port
                   caps == peripherals[i].capabilities
               IN  /\ peripherals'[i].port = port
                   /\ peripherals'[i].message_handler
                   /\ peripheral_queue' = Tail(peripheral_queue)
                   /\ IF Len(caps) = 1
                      THEN /\ message_queue' =
                                Append(message_queue,
                                       <<0, 65, port, caps[1], 1, 0, 0, 0, 1>>)
                           /\ peripherals'[i].value.kind = "unset"
                      ELSE UNCHANGED message_queue ]_vars
    /\ [](\A i \in PIdx :
            peripherals[i].message_handler => peripherals[i].port # None)
    /\ [][ (\/ \E i \in PIdx :
                 peripherals'[i].message_handler # peripherals[i].message_handler
             \/ /\ Len(message_queue') > Len(message_queue)
                /\ message_queue'[Len(message_queue')][2] = 65) =>
               \E i \in PIdx : BindStep(i) ]_vars

\* a peripheral with a capability, declared without a port, is bound and
\* activated: its command is on the message queue
C12_Witness ==
    \E i \in PIdx :
       /\ Len(peripherals[i].capabilities) = 1
       /\ peripherals[i].decl_port = None
       /\ peripherals[i].port \in DOMAIN port_to_peripheral
       /\ peripherals[i].message_handler
       /\ \E k \in 1..Len(message_queue) :
            message_queue[k] = <<0, 65, peripherals[i].port, 1, 1, 0, 0, 0, 1>>

\* the dispatcher puts events at the end of the peripheral queue (or none)
EnqueueStep ==
    /\ Len(peripheral_queue') >= Len(peripheral_queue)
    /\ SubSeq(peripheral_queue', 1, Len(peripheral_queue)) = peripheral_queue

\* the effects of event ev of the peripheral queue are there
EffectsDone(ev) ==
    /\ ev.msg = "update_port" => ev.port \in port_info'
    /\ (ev.msg = "port_detected" /\ query_port_info) =>
         message_queue' = Append(message_queue, <<0, 33, ev.port, 1>>)
    /\ (ev.msg = "value_change" /\ loop_state' = "running") =>
         LET i == port_to_peripheral[ev.port]
         IN  /\ peripherals'[i].value.kind \in {"raw", "scalar"}
             /\ handler_calls'[i] = handler_calls[i] + 1
    /\ (ev.msg = "attach" /\ loop_state' = "running"
          /\ ev.port \in DOMAIN port_to_peripheral') =>
         LET i == port_to_peripheral'[ev.port]
         IN  /\ peripherals'[i].port = ev.port
             /\ peripherals'[i].message_handler

\* C13: the events the dispatcher puts on a hub's peripheral queue are
\* processed in the order they were put: the dispatcher only appends to the
\* queue and changes nothing of the hub, and the message loop only takes
\* the oldest event, one per step, with its effects (binding, activation,
\* value update, handler call) done in that step.
C13_EventsInOrder ==
    [][ \/ /\ EnqueueStep
           /\ UNCHANGED <<peripherals, port_to_peripheral, port_info,
                          message_queue, handler_calls, loop_state>>
        \/ /\ peripheral_queue # <<>>
           /\ loop_state = "running"
           /\ peripheral_queue' = Tail(peripheral_queue)
           /\ EffectsDone(Head(peripheral_queue)) ]_vars

\* the events of two notifications were on the queue together, and the loop
\* has worked through them to a value_change, whose handler it called
C13_Witness ==
    /\ n_parsed >= 2
    /\ Len(peripheral_queue) >= 2
    /\ Ports \cap port_info # {}
    /\ \E i \in PIdx : handler_calls[i] > 0

\* the message loop takes an 'update_port' event off the queue
UpdatePortStep ==
    /\ LoopReady("update_port")
    /\ peripheral_queue' = Tail(peripheral_queue)

\* C15: the port meta-data readable through hub.port_info changes only when
\* the hub's message loop processes an 'update_port' event, never in a step
\* of the dispatcher's parse.
C15_PortInfoOwnedByLoop ==
    [][ HubPortInfo' # HubPortInfo => UpdatePortStep ]_vars

\* the dispatcher has parsed an attach (or virtual attach) message of a
\* known device, or a detach message
ParsedAttachStep ==
    /\ n_parsed' = n_parsed + 1
    /\ l'.text \in {"Attached IO Port", "Attached VirtualIO Port"}

ParsedDetachStep ==
    /\ n_parsed' = n_parsed + 1
    /\ l'.text = "Detached IO Port"

\* C27: for every attach or virtual attach message of a known device the
\* dispatcher records the device id and name (and the two underlying ports
\* of a virtual attach) in its port_info of the port and puts exactly the
\* three events 'attach', 'update_port', 'port_detected' on the hub's
\* queue, the same for a virtual as for a physical attach; a detach
\* message puts no event.
C27_AttachEvents ==
    /\ [][ ParsedAttachStep =>
             LET port == l'.port
                 info == dispatcher_port_info'[port]
             IN  /\ port \in DOMAIN dispatcher_port_info'
                 /\ info.id \in DOMAIN DEVICES
                 /\ info.name = DEVICES[info.id]
                 /\ l'.text = "Attached VirtualIO Port" => info.virtual = <<1, 2>>
                 /\ peripheral_queue' =
                      peripheral_queue
                      \o << [msg |-> "attach", port |-> port,
                              device_name |-> info.name, msg_bytes |-> <<>>],
                            [msg |-> "update_port", port |-> port,
                              device_name |-> "", msg_bytes |-> <<>>],
                            [msg |-> "port_detected", port |-> port,
                              device_name |-> "", msg_bytes |-> <<>>] >> ]_vars
    /\ [][ ParsedDetachStep =>
             UNCHANGED <<peripheral_queue, dispatcher_port_info>> ]_vars

\* a virtual attach of a voltage sensor on port 3 was parsed
C27_Witness ==
    /\ l = [text |-> "Attached VirtualIO Port", port |-> 3]
    /\ dispatcher_port_info[3] =
         [EmptyPortInfo EXCEPT !.id = 20, !.name = "Voltage",
                               !.virtual = <<1, 2>>]
    /\ Len(peripheral_queue) >= 3
    /\ peripheral_queue[Len(peripheral_queue) - 2].msg = "attach"
    /\ peripheral_queue[Len(peripheral_queue)].msg = "port_detected"

\* the log of a parse of one of the messages that have a parser and known
\* codes
KnownLogs == {"Attached IO Port", "Attached VirtualIO Port",
              "Detached IO Port", "Port changed value"}

\* the dispatcher's parse returns the log of a message that it does not know
UnknownMessageStep ==
    /\ n_parsed' = n_parsed + 1
    /\ l'.text \notin KnownLogs \cup {"AssertionError"}

\* C18: a message with an unrecognized type, an unknown hub property or
\* operation, an unknown port-information mode or an unknown
\* mode-information sub-type is not fatal: parse returns a log that ends
\* with the hex of the whole message, puts no event on the hub's queue and
\* changes nothing of the hub, and a later message is still parsed.
C18_UnknownMessageLogged ==
    /\ [][ UnknownMessageStep =>
             /\ l'.text \in
                  { "0x5:0x0:0x99:0x1:0x2",
                    "Hub property:  0x5:0x0:0x1:0x0:0x6",
                    "Hub property:  Button 0x6:0x0:0x1:0x2:0x9:0x1",
                    "Port 2 Mode 3: 0x6:0x0:0x43:0x2:0x3:0x0",
                    "MODE INFO Port:2 Mode:0 0x7:0x0:0x44:0x2:0x0:0x9:0x0" }
             /\ UNCHANGED <<peripheral_queue, peripherals, port_to_peripheral,
                            port_info, loop_state, message_queue,
                            handler_calls>> ]_vars
    /\ [](n_parsed < MaxMsgs => ENABLED (ParsePortValue
                                        /\ UNCHANGED <<motor_vars, tx_vars,
                                                       hubs_vars, decl_vars>>))

\* a PortValue message was parsed after a port-information message of an
\* unknown mode, which left its entry in the dispatcher's port_info
C18_Witness ==
    /\ l.text = "Port changed value"
    /\ 2 \in DOMAIN dispatcher_port_info
    /\ dispatcher_port_info[2].id = 0
    /\ peripheral_queue # <<>>
    /\ peripheral_queue[Len(peripheral_queue)].msg = "value_change"

(***************************************************************************)
(* The motor (sensor/motor.py) and curio's kernel                          *)
(*                                                                         *)
(* curio runs one task at a time, and a task runs until it blocks: one     *)
(* action is the run of a task from where it is to where it blocks next.   *)
(* The operators below take and return the motor's state as a record st.   *)
(***************************************************************************)
MotorState ==
    [tasks |-> tasks, speed |-> speed,
     ramp_in_progress_task |-> ramp_in_progress_task,
     message_queue |-> message_queue]

Terminated(st, t) == st.tasks[t].state \in {"finished", "cancelled"}

\* the ramp tasks that are spawned and neither finished nor cancelled
Live(st) == {r \in RampIds : st.tasks[r].state \notin
                               {"unborn", "finished", "cancelled"}}

\* Python's int() of the quotient n/d, d > 0: it truncates towards zero
int(n, d) == IF n >= 0 THEN n \div d ELSE -((-n) \div d)

\* a conversion without the brake value 127
_convert_speed_clamped(v) ==
    IF v > 100 THEN 100
    ELSE IF v < 0 THEN v % 256
    ELSE v

\* Peripheral._convert_speed_to_val
_convert_speed_to_val(v) ==
    IF v = 127 THEN 127
    ELSE IF v > 100 THEN 100
    ELSE IF v < 0 THEN v % 256
    ELSE v

\* Peripheral.set_output: the bytes b of mode 0
OutputCommand(value) == <<0, 129, MotorPort, 1, 81, 0, value>>

\* a task terminates: curio reschedules the tasks that wait for it
terminate(st, t, how) ==
    [st EXCEPT !.tasks =
       [j \in TaskIds |->
          IF j = t THEN [st.tasks[j] EXCEPT !.state = how]
          ELSE IF st.tasks[j].state = "joining" /\ st.tasks[j].wait_for = t
               THEN [st.tasks[j] EXCEPT !.state = "ready", !.wait_for = None]
               ELSE st.tasks[j]]]

\* a blocking trap of task t: a pending cancellation is delivered there,
\* otherwise the task blocks
Block(st, t, state, pc, wait_for) ==
    IF st.tasks[t].cancel_pending
    THEN [st EXCEPT !.tasks[t].state = "cancelling",
                    !.tasks[t].cancel_pending = FALSE]
    ELSE [st EXCEPT !.tasks[t].state = state, !.tasks[t].pc = pc,
                    !.tasks[t].wait_for = wait_for]

\* Task.cancel() of a task r that has not terminated, up to its wait: a
\* blocked task is rescheduled with CancelledError, a task in the ready
\* queue gets it at its next blocking trap
cancel(st, by, r) ==
    LET T == [st.tasks[r] EXCEPT
                !.cancelled_by = IF @ = None THEN by ELSE @]
    IN  [st EXCEPT !.tasks[r] =
           IF T.state \in {"sleeping", "joining"}
           THEN [T EXCEPT !.state = "cancelling", !.wait_for = None]
           ELSE IF T.state = "ready"
                THEN [T EXCEPT !.cancel_pending = TRUE]
                ELSE T]

\* set_speed returns to the task that called it: to the user's code, or into
\* _ramp_speed, which sleeps in its loop and ends after its last set_speed
set_speed_returns(st, t) ==
    IF t \in CallerIds
    THEN [st EXCEPT !.tasks[t].state = "idle",
                    !.tasks[t].returned = @ + 1]
    ELSE IF st.tasks[t].in_loop
         THEN Block(st, t, "sleeping", "tick", None)
         ELSE terminate([st EXCEPT !.ramp_in_progress_task = None],
                        t, "finished")

\* Hub.send_message, once Peripheral.send_message has a message_handler
send_message(st, t) ==
    set_speed_returns(
        [st EXCEPT !.message_queue =
           Append(@, OutputCommand(_convert_speed_to_val(st.tasks[t].speed)))],
        t)

\* Peripheral.set_output, through Peripheral.send_message
set_output(st, t, handler) ==
    IF handler THEN send_message(st, t)
    ELSE Block(st, t, "sleeping", "send_message", None)

\* a ramp_speed without its assert
spawn_ramp_unchecked(st, t) ==
    LET r == Min({x \in RampIds : st.tasks[x].state = "unborn"})
    IN  [st EXCEPT
           !.tasks[r] =
              [NewTask("ready") EXCEPT
                 !.pc = "tick", !.op = "_ramp_speed",
                 !.target_speed = st.tasks[t].target_speed,
                 !.ramp_time_ms = st.tasks[t].ramp_time_ms,
                 !.start_speed = st.speed],
           !.ramp_in_progress_task = r,
           !.tasks[t].state = "idle",
           !.tasks[t].returned = @ + 1]

\* ramp_speed after _cancel_existing_differet_ramp: the assert, and the spawn
\* of _ramp_speed
spawn_ramp(st, t) ==
    IF st.tasks[t].ramp_time_ms > 100
    THEN LET r == Min({x \in RampIds : st.tasks[x].state = "unborn"})
         IN  [st EXCEPT
                !.tasks[r] =
                   [NewTask("ready") EXCEPT
                      !.pc = "tick", !.op = "_ramp_speed",
                      !.target_speed = st.tasks[t].target_speed,
                      !.ramp_time_ms = st.tasks[t].ramp_time_ms,
                      !.start_speed = st.speed],
                !.ramp_in_progress_task = r,
                !.tasks[t].state = "idle",
                !.tasks[t].returned = @ + 1]
    ELSE [st EXCEPT !.tasks[t].state = "failed"]

\* set_speed and ramp_speed after _cancel_existing_differet_ramp
after_cancel(st, t, handler) ==
    IF st.tasks[t].op = "ramp_speed"
    THEN spawn_ramp(st, t)
    ELSE set_output([st EXCEPT !.speed = st.tasks[t].speed], t, handler)

\* the test of _cancel_existing_differet_ramp without its comparison with
\* the current task
IsAnyRamp(task, current) == task # None

\* _cancel_existing_differet_ramp: there is a ramp, of another task
IsDifferentRamp(task, current) == task # None /\ current # task

\* a ramp_speed that would test its duration before it cancels the ramp in
\* progress
_cancel_existing_differet_ramp_after_assert(st, t, handler) ==
    LET r == st.ramp_in_progress_task
    IN  IF st.tasks[t].op = "ramp_speed" /\ st.tasks[t].ramp_time_ms <= 100
        THEN [st EXCEPT !.tasks[t].state = "failed"]
        ELSE IF IsDifferentRamp(r, t)
        THEN IF Terminated(st, r)
             THEN after_cancel([st EXCEPT !.ramp_in_progress_task = None],
                               t, handler)
             ELSE Block(cancel(st, t, r), t, "joining", "cancel", r)
        ELSE after_cancel(st, t, handler)

\* Motor._cancel_existing_differet_ramp, and what follows it if it does not
\* block
_cancel_existing_differet_ramp(st, t, handler) ==
    LET r == st.ramp_in_progress_task
    IN  IF IsDifferentRamp(r, t)
        THEN IF Terminated(st, r)
             THEN \* Task.cancel returns at once
                  after_cancel([st EXCEPT !.ramp_in_progress_task = None],
                               t, handler)
             ELSE Block(cancel(st, t, r), t, "joining", "cancel", r)
        ELSE after_cancel(st, t, handler)

\* _ramp_speed, one iteration of its loop up to the set_speed
ramp_step(st, r) ==
    LET T == st.tasks[r]
        next_speed ==
          int(T.start_speed * T.ramp_time_ms
                + T.current_step * (T.target_speed - T.start_speed)
                    * TIME_STEP_MS,
              T.ramp_time_ms)
        current_step == T.current_step + 1
    IN  [st EXCEPT
           !.tasks[r].current_step = current_step,
           !.tasks[r].in_loop = TRUE,
           !.tasks[r].speed =
              IF current_step * TIME_STEP_MS = T.ramp_time_ms
              THEN T.target_speed ELSE next_speed]

\* a _ramp_speed that would end at the speed its loop has reached
ramp_end_at_last_step(st, r) ==
    [st EXCEPT !.tasks[r].in_loop = FALSE, !.tasks[r].speed = st.speed]

\* _ramp_speed after its loop: set_speed(target_speed)
ramp_end(st, r) ==
    [st EXCEPT !.tasks[r].in_loop = FALSE,
               !.tasks[r].speed = st.tasks[r].target_speed]

\* _ramp_speed from the test of its loop to its next set_speed
\* (number_of_steps is ramp_time_ms/TIME_STEP_MS, a float)
tick(st, r) ==
    IF st.tasks[r].current_step * TIME_STEP_MS < st.tasks[r].ramp_time_ms
    THEN ramp_step(st, r)
    ELSE ramp_end(st, r)

\* the run of a ready task up to its next blocking trap
run(st, t, handler) ==
    LET pc == st.tasks[t].pc
    IN  IF pc = "tick"
        THEN _cancel_existing_differet_ramp(tick(st, t), t, handler)
        ELSE IF pc = "cancel"
        THEN \* Task.cancel has returned
             after_cancel([st EXCEPT !.ramp_in_progress_task = None],
                          t, handler)
        ELSE \* pc = "send_message": its sleep(1) is over
             set_output(st, t, handler)

\* the motor's state after a step
Becomes(st) ==
    /\ tasks' = st.tasks
    /\ speed' = st.speed
    /\ ramp_in_progress_task' = st.ramp_in_progress_task
    /\ message_queue' = st.message_queue

(***************************************************************************)
(* The steps of the motor's tasks                                          *)
(***************************************************************************)
\* a ramp_speed that is called can spawn its task within the bound
CanSpawn ==
    Cardinality({r \in RampIds : tasks[r].state = "unborn"}) >
    Cardinality({c \in CallerIds : /\ tasks[c].op = "ramp_speed"
                                   /\ tasks[c].state \notin {"idle", "failed"}})

\* a task calls Motor.set_speed(v) and runs up to where it blocks
CallSetSpeed(c) ==
    /\ tasks[c].state = "idle"
    /\ n_calls < MaxCalls
    /\ n_calls' = n_calls + 1
    /\ \E v \in Speeds :
         Becomes(_cancel_existing_differet_ramp(
                   [MotorState EXCEPT
                      !.tasks[c].op = "set_speed",
                      !.tasks[c].speed = v,
                      !.tasks[c].seen = Live(MotorState)],
                   c, message_handler))
    /\ UNCHANGED message_handler

\* a task calls Motor.ramp_speed(target_speed, ramp_time_ms)
CallRampSpeed(c) ==
    /\ tasks[c].state = "idle"
    /\ n_calls < MaxCalls
    /\ CanSpawn
    /\ n_calls' = n_calls + 1
    /\ \E target_speed \in Targets, ramp_time_ms \in RampTimes :
         Becomes(_cancel_existing_differet_ramp(
                   [MotorState EXCEPT
                      !.tasks[c].op = "ramp_speed",
                      !.tasks[c].target_speed = target_speed,
                      !.tasks[c].ramp_time_ms = ramp_time_ms,
                      !.tasks[c].seen = Live(MotorState)],
                   c, message_handler))
    /\ UNCHANGED message_handler

\* curio runs a task of its ready queue
Run(t) ==
    /\ tasks[t].state = "ready"
    /\ Becomes(run(MotorState, t, message_handler))
    /\ UNCHANGED <<message_handler, n_calls>>

\* a sleep is over
Wake(t) ==
    /\ tasks[t].state = "sleeping"
    /\ tasks' = [tasks EXCEPT ![t].state = "ready"]
    /\ UNCHANGED <<speed, ramp_in_progress_task, message_queue,
                   message_handler, n_calls>>

\* CancelledError is raised in a task, which nothing catches
Cancelled(t) ==
    /\ tasks[t].state = "cancelling"
    /\ Becomes(terminate(MotorState, t, "cancelled"))
    /\ UNCHANGED <<message_handler, n_calls>>

\* peripheral_message_loop, msg == 'attach': the motor gets its
\* message_handler
MotorAttached ==
    /\ ~message_handler
    /\ message_handler' = TRUE
    /\ UNCHANGED <<speed, ramp_in_progress_task, message_queue, tasks, n_calls>>

hub_idle == <<peripherals, port_to_peripheral, peripheral_queue, port_info,
              dispatcher_port_info, query_port_info, loop_state,
              handler_calls, l, n_parsed>>

\* The motor of a hub that _run_all has connected
MotorSpecInit ==
    /\ MotorInit
    /\ peripherals = [i \in PIdx |-> NewPeripheral("Light", None, FALSE)]
    /\ port_to_peripheral = <<>>
    /\ peripheral_queue = <<>>
    /\ port_info = {}
    /\ dispatcher_port_info = <<>>
    /\ message_queue = <<>>
    /\ query_port_info = FALSE
    /\ loop_state = "running"
    /\ handler_calls = [i \in PIdx |-> 0]
    /\ l = [text |-> "", port |-> None]
    /\ n_parsed = 0
    /\ TxInit(FALSE)
    /\ Constructed

MotorNext ==
    \/ \E c \in CallerIds : CallSetSpeed(c) /\ UNCHANGED <<hub_idle, tx_vars, hubs_vars, decl_vars>>
    \/ \E c \in CallerIds : CallRampSpeed(c) /\ UNCHANGED <<hub_idle, tx_vars, hubs_vars, decl_vars>>
    \/ \E t \in TaskIds : Run(t) /\ UNCHANGED <<hub_idle, tx_vars, hubs_vars, decl_vars>>
    \/ \E t \in TaskIds : Wake(t) /\ UNCHANGED <<hub_idle, tx_vars, hubs_vars, decl_vars>>
    \/ \E t \in RampIds : Cancelled(t) /\ UNCHANGED <<hub_idle, tx_vars, hubs_vars, decl_vars>>
    \/ MotorAttached /\ UNCHANGED <<hub_idle, tx_vars, hubs_vars, decl_vars>>

MotorSpec == MotorSpecInit /\ [][MotorNext]_vars

\* curio runs every task of its ready queue, sleeps end, and the hub reports
\* the motor that is plugged in
MotorFairNext == MotorNext /\ n_calls' <= FairCalls

MotorFairSpec ==
    /\ MotorSpecInit
    /\ [][MotorFairNext]_vars
    /\ \A t \in TaskIds : WF_vars(Run(t) /\ UNCHANGED <<hub_idle, tx_vars, hubs_vars, decl_vars>>)
    /\ \A t \in TaskIds : WF_vars(Wake(t) /\ UNCHANGED <<hub_idle, tx_vars, hubs_vars, decl_vars>>)
    /\ \A t \in RampIds : WF_vars(Cancelled(t) /\ UNCHANGED <<hub_idle, tx_vars, hubs_vars, decl_vars>>)
    /\ WF_vars(MotorAttached /\ UNCHANGED <<hub_idle, tx_vars, hubs_vars, decl_vars>>)

(***************************************************************************)
(* Properties of the motor's ramps, checked under MotorSpec                *)
(***************************************************************************)
\* task c returns from a call of set_speed
SetSpeedReturns(c) ==
    /\ tasks'[c].returned = tasks[c].returned + 1
    /\ tasks'[c].op = "set_speed"

\* C2: when a set_speed(v) that a task other than the ramp task called while
\* a ramp was in progress returns, the ramp task has terminated (so that it
\* puts no further command on the queue) and the motor's speed is v.
C2_SetSpeedEndsRamp ==
    [][ \A c \in CallerIds :
          (SetSpeedReturns(c) /\ tasks'[c].seen # {}) =>
             /\ \A r \in tasks'[c].seen :
                  tasks'[r].state \in {"finished", "cancelled"}
             /\ speed' = tasks'[c].speed ]_vars

\* C3: at most one ramp task is live, and a live ramp task is the one in
\* ramp_in_progress_task.
C3_OneLiveRamp ==
    /\ Cardinality(Live(MotorState)) <= 1
    /\ \A r \in Live(MotorState) : ramp_in_progress_task = r

\* C4: no ramp task is cancelled by a set_speed of its own, and a ramp task
\* that no other task cancels is never cancelled and ends only after all
\* its ticks.
C4_NoSelfCancel ==
    \A r \in RampIds :
       /\ tasks[r].cancelled_by # r
       /\ tasks[r].cancelled_by = None =>
            /\ ~tasks[r].cancel_pending
            /\ tasks[r].state \notin {"cancelling", "cancelled"}
            /\ tasks[r].state = "finished" =>
                 /\ tasks[r].current_step * TIME_STEP_MS >= tasks[r].ramp_time_ms
                 /\ ~tasks[r].in_loop

\* a ramp that nothing cancelled has made its set_speed calls and finished
C4_Witness ==
    \E r \in RampIds :
       /\ tasks[r].state = "finished"
       /\ tasks[r].cancelled_by = None
       /\ tasks[r].current_step > 1

ShortRampStep(c) ==
    /\ tasks[c].state \in {"idle", "ready"}
    /\ tasks'[c].state # tasks[c].state
    /\ tasks'[c].op = "ramp_speed"
    /\ tasks'[c].ramp_time_ms <= 100

\* C17: ramp_speed(target, ramp_time_ms) with ramp_time_ms <= 100 fails with
\* an AssertionError: the call does not return, spawns no ramp task and
\* puts no output command on the queue (it may wait for the ramp in
\* progress, which it cancels before the assert).
C17_ShortRampFails ==
    [][ \A c \in CallerIds :
          ShortRampStep(c) =>
             /\ tasks'[c].state \in {"failed", "joining"}
             /\ tasks[c].state = "ready" => tasks'[c].state = "failed"
             /\ tasks'[c].returned = tasks[c].returned
             /\ message_queue' = message_queue
             /\ speed' = speed
             /\ \A r \in RampIds :
                  tasks[r].state = "unborn" => tasks'[r].state = "unborn"
             /\ ramp_in_progress_task' \in {ramp_in_progress_task, None} ]_vars

\* a ramp_speed with a ramp_time_ms of 100, called during a ramp, has failed
C17_Witness ==
    \E c \in CallerIds :
       /\ tasks[c].state = "failed"
       /\ tasks[c].ramp_time_ms = 100
       /\ tasks[c].seen # {}

\* a ramp_speed with a ramp_time_ms of at most 100 is called by c while the
\* ramp recorded in ramp_in_progress_task has not terminated
ShortRampCalledDuringRamp(c) ==
    /\ tasks[c].state = "idle"
    /\ tasks'[c].state # "idle"
    /\ tasks'[c].op = "ramp_speed"
    /\ tasks'[c].ramp_time_ms <= 100
    /\ ramp_in_progress_task # None
    /\ ~Terminated(MotorState, ramp_in_progress_task)

\* the assert of ramp_speed fails in c
ShortRampAsserts(c) ==
    /\ tasks[c].state # "failed"
    /\ tasks'[c].state = "failed"
    /\ tasks'[c].op = "ramp_speed"

\* C33: the duration check of ramp_speed runs after the cancellation of the
\* ramp in progress.  A ramp_speed with ramp_time_ms <= 100 called while the
\* recorded ramp runs first cancels that ramp and waits for it; the caller
\* goes on only when that ramp has terminated; and when the assert fails,
\* no ramp task is spawned, ramp_in_progress_task is None and the ramp that
\* was recorded before has terminated.
C33_CheckAfterCancel ==
    [][ \A c \in CallerIds :
          /\ ShortRampCalledDuringRamp(c) =>
                LET r == ramp_in_progress_task
                IN  /\ tasks'[c].state = "joining"
                    /\ tasks'[c].wait_for = r
                    /\ tasks'[r].state = "cancelling"
                           \/ tasks'[r].cancel_pending
                    /\ \A u \in RampIds :
                         tasks[u].state = "unborn" => tasks'[u].state = "unborn"
          /\ (tasks[c].state = "joining" /\ tasks'[c].state # "joining") =>
                /\ tasks'[c].state = "ready"
                /\ tasks'[c].pc = "cancel"
                /\ Terminated([tasks |-> tasks'], tasks[c].wait_for)
          /\ ShortRampAsserts(c) =>
                /\ tasks'[c].ramp_time_ms <= 100
                /\ ramp_in_progress_task' = None
                /\ \A u \in RampIds :
                     tasks[u].state = "unborn" => tasks'[u].state = "unborn"
                /\ IF tasks[c].state = "idle"
                   THEN ramp_in_progress_task # None =>
                           Terminated(MotorState, ramp_in_progress_task)
                   ELSE tasks[c].state = "ready" /\ tasks[c].pc = "cancel"
        ]_vars

\* a ramp_speed with a ramp_time_ms of 100 has failed after it cancelled
\* the ramp that was running: that ramp is cancelled, no ramp is recorded
C33_Witness ==
    \E c \in CallerIds : \E r \in RampIds :
       /\ tasks[c].state = "failed"
       /\ tasks[c].op = "ramp_speed"
       /\ tasks[c].ramp_time_ms <= 100
       /\ tasks[r].state = "cancelled"
       /\ tasks[r].cancelled_by = c
       /\ ramp_in_progress_task = None
       /\ Live(MotorState) = {}

(***************************************************************************)
(* The transport (ble_queue.py, bleak_interface.py)                        *)
(***************************************************************************)
\* a send_message that would not count the length byte itself
values_of_length(msg) == <<Len(msg)>> \o msg

\* BLEventQ.send_message: the length is prepended to the message
values(msg) == <<Len(msg) + 1>> \o msg

\* Hub.send_message, the hub being connected (self.tx is set)
HubSendMessage ==
    /\ Len(sent) < MaxSent
    /\ \E msg_bytes \in Commands :
         /\ message_queue' = Append(message_queue, msg_bytes)
         /\ sent' = Append(sent, msg_bytes)
    /\ UNCHANGED <<in_queue, written, ble_q, tx>>

\* BLEventQ.run, one iteration: a message is taken off the queue and
\* written, or with bleak handed to the asyncio loop
BLEventQRun ==
    /\ ble_q.run = "running"
    /\ message_queue # <<>>
    /\ message_queue' = Tail(message_queue)
    /\ IF ble_q.USE_BLEAK
       THEN /\ in_queue' = Append(in_queue, [msg |-> "tx",
                                             val |-> values(Head(message_queue))])
            /\ UNCHANGED written
       ELSE /\ written' = Append(written, values(Head(message_queue)))
            /\ UNCHANGED in_queue
    /\ UNCHANGED <<sent, ble_q, tx>>

\* _run_all, at its end: task_ble_q.cancel()
CancelBLEventQ ==
    /\ ble_q.run = "running"
    /\ ~ble_q.cancel_pending
    /\ ble_q' = [ble_q EXCEPT !.cancel_pending = TRUE]
    /\ UNCHANGED <<message_queue, in_queue, written, sent, tx>>

\* BLEventQ.run gets CancelledError where it blocks, in self.q.get() on an
\* empty queue
BLEventQCancelled ==
    /\ ble_q.run = "running"
    /\ ble_q.cancel_pending
    /\ message_queue = <<>>
    /\ IF ble_q.USE_BLEAK
       THEN /\ in_queue' = Append(in_queue, [msg |-> "quit", val |-> <<>>])
            /\ ble_q' = [ble_q EXCEPT !.run = "terminated",
                                      !.cancel_pending = FALSE]
       ELSE /\ ble_q' = [ble_q EXCEPT !.run = "terminated",
                                      !.cancel_pending = FALSE,
                                      !.disconnected = TRUE]
            /\ UNCHANGED in_queue
    /\ UNCHANGED <<message_queue, written, sent, tx>>

\* an asyncio loop that would serve the newest request first
AsyncioLoopNewestFirst ==
    /\ ~ble_q.done
    /\ in_queue # <<>>
    /\ LET request == in_queue[Len(in_queue)]
       IN  /\ in_queue' = SubSeq(in_queue, 1, Len(in_queue) - 1)
           /\ written' = IF request.msg = "tx"
                         THEN Append(written, request.val) ELSE written
           /\ ble_q' = [ble_q EXCEPT
                          !.notify = @ \/ request.msg = "notify",
                          !.done = request.msg = "quit",
                          !.disconnected = request.msg = "quit"]
    /\ UNCHANGED <<message_queue, sent, tx>>

\* Bleak.asyncio_loop, one iteration
AsyncioLoop ==
    /\ ~ble_q.done
    /\ in_queue # <<>>
    /\ LET request == Head(in_queue)
       IN  /\ in_queue' = Tail(in_queue)
           /\ written' = IF request.msg = "tx"
                         THEN Append(written, request.val) ELSE written
           /\ ble_q' = [ble_q EXCEPT
                          !.notify = @ \/ request.msg = "notify",
                          !.done = request.msg = "quit",
                          !.disconnected = request.msg = "quit"]
    /\ UNCHANGED <<message_queue, sent, tx>>

tx_idle == <<peripherals, port_to_peripheral, peripheral_queue, port_info,
             dispatcher_port_info, query_port_info, loop_state,
             handler_calls, l, n_parsed, motor_vars, hubs_vars, decl_vars>>

\* A connected hub, under either BLE library
TxSpecInit ==
    /\ \E USE_BLEAK \in BOOLEAN : TxInit(USE_BLEAK)
    /\ MotorInit
    /\ Constructed
    /\ peripherals = [i \in PIdx |-> NewPeripheral("Light", None, FALSE)]
    /\ port_to_peripheral = <<>>
    /\ peripheral_queue = <<>>
    /\ port_info = {}
    /\ dispatcher_port_info = <<>>
    /\ message_queue = <<>>
    /\ query_port_info = FALSE
    /\ loop_state = "running"
    /\ handler_calls = [i \in PIdx |-> 0]
    /\ l = [text |-> "", port |-> None]
    /\ n_parsed = 0

TxNext ==
    \/ HubSendMessage /\ UNCHANGED tx_idle
    \/ BLEventQRun /\ UNCHANGED tx_idle
    \/ CancelBLEventQ /\ UNCHANGED tx_idle
    \/ BLEventQCancelled /\ UNCHANGED tx_idle
    \/ AsyncioLoop /\ UNCHANGED tx_idle

TxSpec == TxSpecInit /\ [][TxNext]_vars

(***************************************************************************)
(* Properties of the transport, checked under TxSpec                       *)
(***************************************************************************)
\* the values of the 'tx' requests on Bleak.in_queue, in order
Requested ==
    LET txs == SelectSeq(in_queue, LAMBDA request : request.msg = "tx")
    IN  [k \in 1..Len(txs) |-> txs[k].val]

\* C14: outbound commands are written to the characteristic in the order
\* they were put on the hub's message queue, through Hub.send_message,
\* BLEventQ.run and the 'tx' requests of Bleak: what was written, what
\* Bleak is asked to write and what waits on the message queue are, one
\* after the other, the commands put so far, each once, with their length
\* prepended; and BLEventQ.run ends only with its queue empty.
C14_CommandsInOrder ==
    /\ [](written \o Requested
            \o [k \in 1..Len(message_queue) |->
                  <<Len(message_queue[k]) + 1>> \o message_queue[k]]
          = [k \in 1..Len(sent) |-> <<Len(sent[k]) + 1>> \o sent[k]])
    /\ [][ (ble_q.run = "running" /\ ble_q'.run = "terminated") =>
             message_queue = <<>> ]_vars
    /\ [](ble_q.done => Requested = <<>>)

\* with bleak, three commands, not all the same, were written, after the
\* 'notify' request
C14_Witness ==
    /\ ble_q.USE_BLEAK
    /\ ble_q.notify
    /\ Len(written) = MaxSent
    /\ written[1] # written[2]

\* C25: a command of any type with a body of 0 to 125 bytes, framed by
\* BLEventQ.send_message and split by MessageDispatch.parse, gives back
\* its type and its body.
C25_FramingRoundTrip ==
    \A k \in 1..Len(written) :
       /\ Len(sent[k]) - 2 \in 0..MaxBody
       /\ split_header(written[k])
            = [msg_type |-> sent[k][2],
               msg_bytes |-> SubSeq(sent[k], 3, Len(sent[k]))]

\* a command without a body and one with a body of 125 bytes were written
C25_Witness ==
    /\ \E k \in 1..Len(written) : split_header(written[k]).msg_bytes = <<>>
    /\ \E k \in 1..Len(written) :
         /\ Len(split_header(written[k]).msg_bytes) = 125
         /\ split_header(written[k]).msg_bytes[125] = 125
         /\ split_header(written[k]).msg_type = 129

\* C26: every frame that is written to the hub starts with a byte that is
\* the number of bytes of the whole frame, itself included, and the byte 0
\* of the hub id follows it.
C26_LengthByte ==
    \A k \in 1..Len(written) :
       /\ written[k][1] = Len(written[k])
       /\ written[k][2] = 0

\* frames of 3, of 8 and of 128 bytes were written
C26_Witness ==
    {Len(written[k]) : k \in 1..Len(written)} = {3, 8, 128}

(***************************************************************************)
(* Several hubs (bricknil.py: _run_all)                                    *)
(***************************************************************************)
Hubs == 1..NumHubs

\* the devices plugged into a hub, which it reports when it is connected:
\* port -> device id
Plugs == { (1 :> 8) @@ (2 :> 20), (1 :> 20) @@ (2 :> 20) }

\* A hub that _run_all has connected: Hub.__init__, with the peripherals of
\* its @attach decorators, and the events of BLEventQ.get_messages on its
\* queue.  loop is the state of the task of its peripheral_message_loop
\* ("cancelled" once it has caught CancelledError) and cancel_pending tells
\* whether a cancellation of it waits for its next blocking call, run
\* tells whether its run() was spawned and returned whether that task has
\* returned, and reported holds the ports whose attach notification the
\* dispatcher has parsed.
NewHub(ps, plugged) ==
    [peripherals |-> ps, port_to_peripheral |-> <<>>,
     peripheral_queue |-> ButtonAttachEvents, port_info |-> {},
     loop |-> "unspawned", cancel_pending |-> FALSE,
     run |-> FALSE, returned |-> FALSE,
     plugged |-> plugged, reported |-> {}]

\* Hub.connect_peripheral_to_port on the peripherals ps of one of the hubs
connect_peripheral_of(ps, device_name, port) ==
    LET reserved == {i \in DOMAIN ps : ps[i].port = port}
        unassigned == {i \in DOMAIN ps : /\ ps[i].sensor_name = device_name
                                         /\ ps[i].port = None}
    IN  IF reserved # {}
        THEN IF device_name = ps[Min(reserved)].sensor_name
             THEN [raised |-> FALSE, peripheral |-> Min(reserved)]
             ELSE [raised |-> TRUE, peripheral |-> None]
        ELSE IF unassigned # {}
             THEN [raised |-> FALSE, peripheral |-> Min(unassigned)]
             ELSE [raised |-> FALSE, peripheral |-> None]

\* the notification callback of hub h parses the attach message of a port
HubNotifies(h) ==
    /\ \E port \in DOMAIN hubs[h].plugged \ hubs[h].reported :
         hubs' = [hubs EXCEPT
                    ![h].reported = @ \cup {port},
                    ![h].peripheral_queue =
                       @ \o message_attach_to_hub(
                              DEVICES[hubs[h].plugged[port]], port)]
    /\ UNCHANGED <<run_all, message_queue>>

\* peripheral_message_loop of hub h, one event
HubLoop(h) ==
    /\ hubs[h].loop = "running"
    /\ hubs[h].peripheral_queue # <<>>
    /\ LET ev == Head(hubs[h].peripheral_queue)
           H == [hubs[h] EXCEPT !.peripheral_queue = Tail(@)]
           r == connect_peripheral_of(H.peripherals, ev.device_name, ev.port)
           i == r.peripheral
       IN  IF ev.msg = "attach"
           THEN IF r.raised
                THEN /\ hubs' = [hubs EXCEPT ![h] =
                                   [H EXCEPT !.loop = "DifferentPeripheralOnPortError"]]
                     /\ UNCHANGED message_queue
                ELSE IF i = None
                THEN /\ hubs' = [hubs EXCEPT ![h] = H]
                     /\ UNCHANGED message_queue
                ELSE /\ hubs' = [hubs EXCEPT ![h] =
                                   [H EXCEPT
                                      !.port_to_peripheral = Put(@, ev.port, i),
                                      !.peripherals[i].port = ev.port,
                                      !.peripherals[i].message_handler = TRUE,
                                      !.peripherals[i].value =
                                         ActivatedValue(H.peripherals[i])]]
                     /\ message_queue' =
                          message_queue
                            \o ActivationCommands(H.peripherals[i], ev.port)
           ELSE IF ev.msg = "update_port"
           THEN /\ hubs' = [hubs EXCEPT ![h] =
                              [H EXCEPT !.port_info = @ \cup {ev.port}]]
                /\ UNCHANGED message_queue
           ELSE /\ hubs' = [hubs EXCEPT ![h] = H]
                /\ UNCHANGED message_queue
    /\ UNCHANGED run_all

\* _run_all: task_listen = await spawn(hub.peripheral_message_loop())
SpawnListen ==
    /\ run_all.pc = "listen"
    /\ hubs' = [hubs EXCEPT ![run_all.hub].loop = "running"]
    /\ run_all' = [run_all EXCEPT !.pc = "wait"]
    /\ UNCHANGED message_queue

\* a _run_all that would spawn hub.run() without waiting for the ports
SpawnRunUnchecked ==
    /\ run_all.pc = "wait"
    /\ hubs' = [hubs EXCEPT ![run_all.hub].run = TRUE]
    /\ run_all' = IF run_all.hub < NumHubs
                  THEN [pc |-> "listen", hub |-> run_all.hub + 1]
                  ELSE [pc |-> "join", hub |-> 0]
    /\ UNCHANGED message_queue

\* _run_all: the loop `while peripheral.port is None` over the peripherals
\* of the hub is left, and hub.run() is spawned
SpawnRun ==
    /\ run_all.pc = "wait"
    /\ \A i \in DOMAIN hubs[run_all.hub].peripherals :
         hubs[run_all.hub].peripherals[i].port # None
    /\ hubs' = [hubs EXCEPT ![run_all.hub].run = TRUE]
    /\ run_all' = IF run_all.hub < NumHubs
                  THEN [pc |-> "listen", hub |-> run_all.hub + 1]
                  ELSE [pc |-> "join", hub |-> 0]
    /\ UNCHANGED message_queue

hubs_idle == <<peripherals, port_to_peripheral, peripheral_queue, port_info,
               dispatcher_port_info, query_port_info, loop_state,
               handler_calls, l, n_parsed, motor_vars, tx_vars, decl_vars>>

\* Hubs with a Light declared on port 1 and a VoltageSensor declared
\* without a port, connected, and _run_all at the first of them
HubsSpecInit ==
    /\ hubs \in [Hubs -> {NewHub(<<NewPeripheral("Light", 1, FALSE),
                                    NewPeripheral("VoltageSensor", None, TRUE)>>,
                                  plugged) : plugged \in Plugs}]
    /\ run_all = [pc |-> "listen", hub |-> 1]
    /\ decl = Called
    /\ MotorInit
    /\ TxInit(FALSE)
    /\ peripherals = [i \in PIdx |-> NewPeripheral("Light", None, FALSE)]
    /\ port_to_peripheral = <<>>
    /\ peripheral_queue = <<>>
    /\ port_info = {}
    /\ dispatcher_port_info = <<>>
    /\ message_queue = <<>>
    /\ query_port_info = FALSE
    /\ loop_state = "running"
    /\ handler_calls = [i \in PIdx |-> 0]
    /\ l = [text |-> "", port |-> None]
    /\ n_parsed = 0

HubsNext ==
    \/ \E h \in Hubs : HubNotifies(h) /\ UNCHANGED hubs_idle
    \/ \E h \in Hubs : HubLoop(h) /\ UNCHANGED hubs_idle
    \/ SpawnListen /\ UNCHANGED hubs_idle
    \/ SpawnRun /\ UNCHANGED hubs_idle

\* curio runs every task that can run, and the hubs report what is plugged
\* into them
HubsSpec ==
    /\ HubsSpecInit
    /\ [][HubsNext]_vars
    /\ \A h \in Hubs : WF_vars(HubNotifies(h) /\ UNCHANGED hubs_idle)
    /\ \A h \in Hubs : WF_vars(HubLoop(h) /\ UNCHANGED hubs_idle)
    /\ WF_vars(SpawnListen /\ UNCHANGED hubs_idle)
    /\ WF_vars(SpawnRun /\ UNCHANGED hubs_idle)

(***************************************************************************)
(* Properties of several hubs, checked under HubsSpec                      *)
(***************************************************************************)
\* the message loop of hub h was ended by DifferentPeripheralOnPortError
Crashed(h) == hubs[h].loop = "DifferentPeripheralOnPortError"

\* hub h has processed every event of the devices plugged into it
Processed(h) ==
    /\ hubs[h].loop = "running"
    /\ hubs[h].reported = DOMAIN hubs[h].plugged
    /\ hubs[h].peripheral_queue = <<>>

\* C16: a DifferentPeripheralOnPortError in the message loop of one hub ends
\* the message processing of that hub (it takes no further event) and does
\* not stop the message processing of another hub: the other hub, unless it
\* fails itself, goes on to process the events of its queue.
C16_OtherHubsContinue ==
    /\ [][ \A h \in Hubs :
             Crashed(h) => /\ Crashed(h)'
                           /\ hubs'[h].peripheral_queue = hubs[h].peripheral_queue
                              \/ Len(hubs'[h].peripheral_queue)
                                   > Len(hubs[h].peripheral_queue) ]_vars
    /\ \A h \in Hubs : \A g \in Hubs \ {h} :
         [](Crashed(h) => <>(Processed(g) \/ Crashed(g)))

\* unless the message loop of a hub fails, every hub gets to process the
\* events of its queue
HubsAllProcessed ==
    <>(\A h \in Hubs : Processed(h)) \/ <>(\E h \in Hubs : Crashed(h))

\* every peripheral declared on hub h has a port
AllPortsSet(h) ==
    \A i \in DOMAIN hubs[h].peripherals : hubs[h].peripherals[i].port # None

\* C35: the run() of a hub is started only when its message loop has been
\* started and every peripheral declared on it has a port, and the hubs
\* are started one after the other in the order of Hub.hubs: the message
\* loop of a hub is started only when the run() of every hub before it has
\* been started.  So while a peripheral of a hub has no port, neither
\* that hub's run() nor the message loop or the run() of any later hub
\* has been started.
C35_StartupGating ==
    /\ [](\A h \in Hubs :
            /\ hubs[h].run => hubs[h].loop # "unspawned" /\ AllPortsSet(h)
            /\ hubs[h].loop # "unspawned" =>
                  \A g \in Hubs : g < h => hubs[g].run
            /\ ~AllPortsSet(h) =>
                  /\ ~hubs[h].run
                  /\ \A g \in Hubs : g > h =>
                       hubs[g].loop = "unspawned" /\ ~hubs[g].run)
    /\ [][ \A h \in Hubs :
             (hubs'[h].run /\ ~hubs[h].run) =>
                /\ hubs[h].loop # "unspawned"
                /\ AllPortsSet(h)
                /\ \A g \in Hubs : g # h => hubs'[g].run = hubs[g].run ]_vars

\* the run() of the first hub was started, and the second hub, whose
\* message loop runs, waits for a peripheral without a port
C35_Witness ==
    /\ hubs[1].run
    /\ hubs[2].loop = "running"
    /\ ~AllPortsSet(2)
    /\ ~hubs[2].run
    /\ run_all = [pc |-> "wait", hub |-> 2]

(***************************************************************************)
(* The declaration of peripherals: attach.__call__ (bricknil.py),          *)
(* Peripheral.__init__ and activate_updates (sensor/peripheral.py),        *)
(* Hub.attach_sensor (hub.py)                                              *)
(***************************************************************************)
\* the peripheral classes of the declarations
DeclClasses == {"VoltageSensor", "ExternalMotor", "VisionSensor"}

\* the capability enum of a class: name -> value
capability(cls) ==
    IF cls = "VoltageSensor" THEN ("sense_s" :> 0) @@ ("sense_l" :> 1)
    ELSE IF cls = "ExternalMotor"
    THEN ("sense_speed" :> 1) @@ ("sense_pos" :> 2)
    ELSE IF cls = "DuploSpeedSensor"
    THEN ("sense_speed" :> 0) @@ ("sense_count" :> 1)
    ELSE ("sense_color" :> 0) @@ ("sense_distance" :> 1)
         @@ ("sense_count" :> 2) @@ ("sense_reflectivity" :> 3)
         @@ ("sense_ambient" :> 4) @@ ("sense_rgb" :> 6)

\* allowed_combo of a class
allowed_combo(cls) ==
    IF cls = "VoltageSensor" THEN {}
    ELSE IF cls = "ExternalMotor" THEN {"sense_speed", "sense_pos"}
    ELSE IF cls = "DuploSpeedSensor" THEN {"sense_speed", "sense_count"}
    ELSE {"sense_color", "sense_distance", "sense_count",
          "sense_reflectivity", "sense_rgb"}

\* datasets of a class: capability -> (number of datasets, bytes of each)
datasets_of(cls) ==
    IF cls = "VoltageSensor"
    THEN ("sense_s" :> <<1, 2>>) @@ ("sense_l" :> <<1, 2>>)
    ELSE IF cls = "ExternalMotor"
    THEN ("sense_speed" :> <<1, 1>>) @@ ("sense_pos" :> <<1, 4>>)
    ELSE IF cls = "DuploSpeedSensor"
    THEN ("sense_speed" :> <<1, 2>>) @@ ("sense_count" :> <<1, 4>>)
    ELSE ("sense_color" :> <<1, 1>>) @@ ("sense_distance" :> <<1, 1>>)
         @@ ("sense_count" :> <<1, 4>>) @@ ("sense_reflectivity" :> <<1, 1>>)
         @@ ("sense_ambient" :> <<1, 1>>) @@ ("sense_rgb" :> <<3, 2>>)

\* an entry of capabilities=[...]: a string, or a member of the capability
\* enum of a class, or a tuple of one of these and a threshold
Str(name) == [enum |-> "str", name |-> name, threshold |-> DEFAULT_THRESHOLD]
Member(cls, name) ==
    [enum |-> cls, name |-> name, threshold |-> DEFAULT_THRESHOLD]
Tup(cap, threshold) == [cap EXCEPT !.threshold = threshold]

\* the lists of capabilities of the declarations
CapLists ==
    { <<>>,
      << Str("sense_l") >>,
      << Str("sense_s"), Str("sense_l") >>,
      << Tup(Str("sense_speed"), 5), Str("sense_pos") >>,
      << Member("ExternalMotor", "sense_speed"), Str("sense_l") >>,
      << Str("sense_rgb") >>,
      << Str("sense_color"), Tup(Str("sense_rgb"), 3) >>,
      << Str("sense_color"), Tup(Str("sense_distance"), 2),
         Str("sense_ambient") >> }

\* the payloads of the value updates of the hub
UpdatePayloads ==
    { <<1, 2, 3, 4, 5, 6>>, <<0, 5, 9, 3, 4>>, <<0, 10, 1, 2, 5, 6, 0>>,
      <<0, 3, 7, 1, 0, 0, 0>> }

\* the names of the declarations
DeclNames == {"volts", "motor"}

\* the keyword arguments of an @attach line, and whether the hub class
\* defines the handler '<name>_change'
Kwargs == [cls : DeclClasses, name : DeclNames, capabilities : CapLists,
           handler : BOOLEAN]

\* Peripheral._get_validated_capabilities, the loop over caps: a member of
\* the class's own enum is taken, a string is looked up in the enum
\* (KeyError if it is not there), anything else is passed over
RECURSIVE validated_caps(_, _)
validated_caps(cls, caps) ==
    IF caps = <<>> THEN [error |-> "", caps |-> <<>>]
    ELSE LET cap == Head(caps)
             rest == validated_caps(cls, Tail(caps))
         IN  IF cap.enum = cls
             THEN [rest EXCEPT !.caps = <<cap.name>> \o @]
             ELSE IF cap.enum = "str"
             THEN IF cap.name \in DOMAIN capability(cls)
                  THEN [rest EXCEPT !.caps = <<cap.name>> \o @]
                  ELSE [error |-> "KeyError", caps |-> <<>>]
             ELSE rest

\* Peripheral._get_validated_capabilities: one threshold for every entry
_get_validated_capabilities(cls, caps) ==
    LET v == validated_caps(cls, caps)
    IN  [error |-> v.error, capabilities |-> v.caps,
         thresholds |-> [k \in 1..Len(caps) |-> caps[k].threshold]]

\* Peripheral.__init__
Peripheral_init(kw) ==
    LET v == _get_validated_capabilities(kw.cls, kw.capabilities)
    IN  [error |-> v.error,
         peripheral |-> [name |-> kw.name, cls |-> kw.cls, port |-> None,
                         capabilities |-> v.capabilities,
                         thresholds |-> v.thresholds,
                         value |-> [kind |-> "None", d |-> <<>>, raw |-> <<>>],
                         message_handler |-> FALSE]]

\* the last entries of the set-combo command: 16*mode + i for every dataset
RECURSIVE combo_datasets(_, _)
combo_datasets(cls, caps) ==
    IF caps = <<>> THEN <<>>
    ELSE [i \in 1..datasets_of(cls)[Head(caps)][1] |->
            16 * capability(cls)[Head(caps)] + (i - 1)]
         \o combo_datasets(cls, Tail(caps))

\* the command that enables the k-th capability
enable(p, port, k) ==
    <<0, 65, port, capability(p.cls)[p.capabilities[k]], p.thresholds[k],
      0, 0, 0, 1>>

\* an activate_updates that would set the order of the datasets before it
\* sets up the capabilities
activate_updates_order_first(p, port) ==
    LET n == Len(p.capabilities)
    IN  IF n < 2 THEN [cmds |-> [k \in 1..n |-> enable(p, port, k)],
                       error |-> ""]
        ELSE [cmds |-> << <<0, 66, port, 2>>,
                          <<0, 66, port, 1, 0>>
                             \o combo_datasets(p.cls, p.capabilities) >>
                       \o [k \in 1..n |-> enable(p, port, k)]
                       \o << <<0, 66, port, 3>> >>,
              error |-> ""]

\* an activate_updates that would test allowed_combo for all capabilities
\* before it sends anything
activate_updates_assert_first(p, port) ==
    LET n == Len(p.capabilities)
        bad == {k \in 1..n : p.capabilities[k] \notin allowed_combo(p.cls)}
    IN  IF n = 0 THEN [cmds |-> <<>>, error |-> ""]
        ELSE IF n = 1 THEN [cmds |-> << enable(p, port, 1) >>, error |-> ""]
        ELSE IF bad # {}
        THEN [cmds |-> <<>>, error |-> "AssertionError"]
        ELSE [cmds |-> << <<0, 66, port, 2>> >>
                       \o [k \in 1..n |-> enable(p, port, k)]
                       \o << <<0, 66, port, 1, 0>>
                                \o combo_datasets(p.cls, p.capabilities),
                             <<0, 66, port, 3>> >>,
              error |-> ""]

\* Peripheral.activate_updates: the commands it sends, and the exception
\* that ends it
activate_updates(p, port) ==
    LET n == Len(p.capabilities)
        bad == {k \in 1..n : p.capabilities[k] \notin allowed_combo(p.cls)}
        lock == <<0, 66, port, 2>>
    IN  IF n = 0 THEN [cmds |-> <<>>, error |-> ""]
        ELSE IF n = 1 THEN [cmds |-> << enable(p, port, 1) >>, error |-> ""]
        ELSE IF bad # {}
        THEN [cmds |-> <<lock>> \o [k \in 1..(Min(bad) - 1) |-> enable(p, port, k)],
              error |-> "AssertionError"]
        ELSE [cmds |-> <<lock>> \o [k \in 1..n |-> enable(p, port, k)]
                       \o << <<0, 66, port, 1, 0>>
                                \o combo_datasets(p.cls, p.capabilities),
                             <<0, 66, port, 3>> >>,
              error |-> ""]

\* Peripheral.activate_updates: self.value = {cap: [None] * n}, unless there
\* is no capability
activated_value(p) ==
    IF p.capabilities = <<>> THEN p.value
    ELSE [kind |-> "dict",
          d |-> [cap \in {p.capabilities[k] : k \in 1..Len(p.capabilities)} |->
                   [scalar |-> FALSE,
                    v |-> [j \in 1..datasets_of(p.cls)[cap][1] |-> None]]],
          raw |-> <<>>]

\* the exception of Peripheral._convert_bytes: msg_bytes[0] of no byte, and
\* struct.unpack of a buffer that has not the size of the format
convert_error(msg_bytes, byte_count) ==
    IF byte_count = 1 /\ Len(msg_bytes) = 0 THEN "IndexError"
    ELSE IF byte_count \in {2, 4} /\ Len(msg_bytes) # byte_count
    THEN "struct.error"
    ELSE ""

\* msg[a:b] of Python, a and b counted from 0
slice(msg, a, b) ==
    SubSeq(msg, a + 1, IF b < Len(msg) THEN b ELSE Len(msg))

\* self.value[cap] = val of one dataset, or self.value[cap][dataset] = val
store(value, cap, n_datasets, dataset, val) ==
    [value EXCEPT !.d[cap] =
        IF n_datasets = 1 THEN [scalar |-> TRUE, v |-> <<val>>]
        ELSE [@ EXCEPT !.v[dataset + 1] = val]]

\* Peripheral.update_value with one capability: the loop over its datasets,
\* from dataset i
RECURSIVE single_value(_, _, _, _, _)
single_value(value, cls, cap, msg, i) ==
    LET n == datasets_of(cls)[cap][1]
        w == datasets_of(cls)[cap][2]
        data == slice(msg, i * w, i * w + w)
    IN  IF i >= n THEN [value |-> value, error |-> ""]
        ELSE IF convert_error(data, w) # ""
        THEN [value |-> value, error |-> convert_error(data, w)]
        ELSE single_value(store(value, cap, n, i, _convert_bytes(data, w)),
                          cls, cap, msg, i + 1)

\* the slots of a combined update: one for every dataset of every
\* capability, in the order of the capabilities
RECURSIVE slots(_, _)
slots(cls, caps) ==
    IF caps = <<>> THEN <<>>
    ELSE [j \in 1..datasets_of(cls)[Head(caps)][1] |->
            [cap |-> Head(caps), dataset |-> j - 1]]
         \o slots(cls, Tail(caps))

\* whether bit i of modes is set: modes & (1 << i)
bit(modes, i) == (modes \div (2 ^ i)) % 2 = 1

\* a loop that would take the bytes of a slot whether its bit is set or not
RECURSIVE combined_values_all_slots(_, _, _, _, _, _)
combined_values_all_slots(value, cls, sl, modes, msg, dataset_i) ==
    IF dataset_i >= Len(sl) THEN [value |-> value, error |-> ""]
    ELSE LET cap == sl[dataset_i + 1].cap
             n == datasets_of(cls)[cap][1]
             w == datasets_of(cls)[cap][2]
             data == slice(msg, 0, w)
         IN  IF convert_error(data, w) # ""
             THEN [value |-> value, error |-> convert_error(data, w)]
             ELSE combined_values_all_slots(
                    store(value, cap, n, sl[dataset_i + 1].dataset,
                          _convert_bytes(data, w)),
                    cls, sl, modes, slice(msg, w, Len(msg)), dataset_i + 1)

\* Peripheral._parse_combined_sensor_values: the loop over the slots, from
\* slot dataset_i, with the bytes msg that are left
RECURSIVE combined_values(_, _, _, _, _, _)
combined_values(value, cls, sl, modes, msg, dataset_i) ==
    IF dataset_i >= Len(sl) THEN [value |-> value, error |-> ""]
    ELSE LET cap == sl[dataset_i + 1].cap
             n == datasets_of(cls)[cap][1]
             w == datasets_of(cls)[cap][2]
             data == slice(msg, 0, w)
         IN  IF ~bit(modes, dataset_i)
             THEN combined_values(value, cls, sl, modes, msg, dataset_i + 1)
             ELSE IF convert_error(data, w) # ""
             THEN [value |-> value, error |-> convert_error(data, w)]
             ELSE combined_values(
                    store(value, cap, n, sl[dataset_i + 1].dataset,
                          _convert_bytes(data, w)),
                    cls, sl, modes, slice(msg, w, Len(msg)), dataset_i + 1)

\* Peripheral._parse_combined_sensor_values
_parse_combined_sensor_values(p, msg) ==
    IF Len(msg) < 2 THEN [value |-> p.value, error |-> "IndexError"]
    ELSE combined_values(p.value, p.cls, slots(p.cls, p.capabilities),
                         msg[2], slice(msg, 2, Len(msg)), 0)

\* an update_value of one capability that would read the datasets from the
\* end of the payload
update_value_reversed(p, msg_bytes) ==
    LET cap == p.capabilities[1]
        n == datasets_of(p.cls)[cap][1]
        w == datasets_of(p.cls)[cap][2]
    IN  single_value(p.value, p.cls, cap,
                     [k \in 1..Len(msg_bytes) |->
                        msg_bytes[Len(msg_bytes) + 1 - k]], 0)

\* Peripheral.update_value of one capability
update_value_single(p, msg_bytes) ==
    single_value(p.value, p.cls, p.capabilities[1], msg_bytes, 0)

\* Peripheral.update_value: the new self.value and the exception raised
Peripheral_update_value(p, msg_bytes) ==
    IF Len(p.capabilities) = 0
    THEN [value |-> [kind |-> "raw", d |-> <<>>, raw |-> msg_bytes],
          error |-> ""]
    ELSE IF Len(p.capabilities) = 1
    THEN update_value_single(p, msg_bytes)
    ELSE _parse_combined_sensor_values(p, msg_bytes)

\* the names of Hub.peripherals
names(ps) == {ps[k].name : k \in 1..Len(ps)}

\* an attach_sensor that would put the sensor in place of the one that has
\* its name
attach_sensor_replacing(ps, sensor) ==
    [error |-> "",
     peripherals |-> IF sensor.name \in names(ps)
                     THEN [k \in 1..Len(ps) |->
                             IF ps[k].name = sensor.name THEN sensor ELSE ps[k]]
                     ELSE Append(ps, sensor)]

\* Hub.attach_sensor
attach_sensor(ps, sensor) ==
    IF sensor.name \in names(ps)
    THEN [error |-> "AssertionError", peripherals |-> ps]
    ELSE [error |-> "", peripherals |-> Append(ps, sensor)]

\* wrapper_f of the next @attach line, up to its call of the class below:
\* it creates the peripheral and looks for the handler of a sense_*
\* capability
wrapper_f ==
    /\ decl.error = ""
    /\ decl.n < Len(decl.declared)
    /\ LET kw == decl.declared[decl.n + 1]
           r == Peripheral_init(kw)
       IN  decl' =
             IF r.error # "" THEN [decl EXCEPT !.error = r.error]
             ELSE IF r.peripheral.capabilities # <<>> /\ ~kw.handler
             THEN [decl EXCEPT !.error = "AssertionError"]
             ELSE [decl EXCEPT !.n = @ + 1,
                               !.pending = Append(@, r.peripheral)]
    /\ UNCHANGED <<message_queue, loop_state>>

\* the innermost wrapper_f calls the class itself: Hub.__init__
Hub_init ==
    /\ decl.error = ""
    /\ decl.n = Len(decl.declared)
    /\ ~decl.hub
    /\ decl' = [decl EXCEPT !.hub = TRUE]
    /\ UNCHANGED <<message_queue, loop_state>>

\* a wrapper_f after the class below it has returned the hub:
\* o.attach_sensor(peripheral), of the peripheral it created
AttachSensor ==
    /\ decl.error = ""
    /\ decl.hub
    /\ decl.pending # <<>>
    /\ LET sensor == decl.pending[Len(decl.pending)]
           r == attach_sensor(decl.peripherals, sensor)
       IN  decl' = [decl EXCEPT
                      !.pending = SubSeq(@, 1, Len(@) - 1),
                      !.peripherals = r.peripherals,
                      !.error = r.error]
    /\ UNCHANGED <<message_queue, loop_state>>

\* Hub.peripheral_message_loop takes the attach event that binds the i-th
\* peripheral, to port i: the port and the message handler are set and
\* activate_updates is awaited
ActivateOnAttach(i) ==
    /\ decl.error = ""
    /\ decl.hub
    /\ decl.pending = <<>>
    /\ loop_state = "running"
    /\ i \in 1..Len(decl.peripherals)
    /\ decl.peripherals[i].port = None
    /\ LET r == activate_updates(decl.peripherals[i], i)
       IN  /\ decl' = [decl EXCEPT !.peripherals[i].port = i,
                                    !.peripherals[i].message_handler = TRUE,
                                    !.peripherals[i].value =
                                        activated_value(decl.peripherals[i])]
           /\ message_queue' = message_queue \o r.cmds
           /\ loop_state' = IF r.error = "" THEN "running" ELSE r.error

\* Hub.peripheral_message_loop takes a value_change event of the port of
\* the i-th peripheral: update_value is awaited
UpdateValue(i) ==
    /\ decl.error = ""
    /\ loop_state = "running"
    /\ decl.updates < MaxUpdates
    /\ i \in 1..Len(decl.peripherals)
    /\ decl.peripherals[i].port # None
    /\ \E msg_bytes \in UpdatePayloads :
         LET r == Peripheral_update_value(decl.peripherals[i], msg_bytes)
         IN  /\ decl' = [decl EXCEPT !.peripherals[i].value = r.value,
                                      !.updates = @ + 1,
                                      !.updated = i,
                                      !.msg_bytes = msg_bytes]
             /\ loop_state' = IF r.error = "" THEN "running" ELSE r.error
    /\ UNCHANGED message_queue

decl_idle == <<peripherals, port_to_peripheral, peripheral_queue, port_info,
               dispatcher_port_info, query_port_info, handler_calls, l,
               n_parsed, motor_vars, tx_vars, hubs_vars>>

\* A hub class with up to MaxDecl @attach lines is called
DeclSpecInit ==
    /\ \E k \in 1..MaxDecl, declared \in [1..MaxDecl -> Kwargs] :
         decl = [declared |-> SubSeq(declared, 1, k), n |-> 0,
                 pending |-> <<>>, hub |-> FALSE, peripherals |-> <<>>,
                 error |-> "", updates |-> 0, updated |-> 0,
                 msg_bytes |-> <<>>]
    /\ hubs = <<>>
    /\ run_all = [pc |-> "join", hub |-> 0]
    /\ MotorInit
    /\ TxInit(FALSE)
    /\ peripherals = [i \in PIdx |-> NewPeripheral("Light", None, FALSE)]
    /\ port_to_peripheral = <<>>
    /\ peripheral_queue = <<>>
    /\ port_info = {}
    /\ dispatcher_port_info = <<>>
    /\ message_queue = <<>>
    /\ query_port_info = FALSE
    /\ loop_state = "running"
    /\ handler_calls = [i \in PIdx |-> 0]
    /\ l = [text |-> "", port |-> None]
    /\ n_parsed = 0

DeclNext ==
    \/ wrapper_f /\ UNCHANGED decl_idle
    \/ Hub_init /\ UNCHANGED decl_idle
    \/ AttachSensor /\ UNCHANGED decl_idle
    \/ \E i \in 1..MaxDecl : ActivateOnAttach(i) /\ UNCHANGED decl_idle
    \/ \E i \in 1..MaxDecl : UpdateValue(i) /\ UNCHANGED decl_idle

DeclSpec == DeclSpecInit /\ [][DeclNext]_vars

(***************************************************************************)
(* Properties of declarations, checked under DeclSpec                      *)
(***************************************************************************)
\* every requested capability is of the class's capability set, and with
\* more than one requested each is in the class's allowed_combo
ValidDeclaration(kw) ==
    /\ \A k \in 1..Len(kw.capabilities) :
         \/ kw.capabilities[k].enum = kw.cls
         \/ /\ kw.capabilities[k].enum = "str"
            /\ kw.capabilities[k].name \in DOMAIN capability(kw.cls)
    /\ Len(kw.capabilities) > 1 =>
         \A k \in 1..Len(kw.capabilities) :
            kw.capabilities[k].name \in allowed_combo(kw.cls)

\* C19: every requested capability must belong to the class's capability
\* set, and several requested capabilities must each be in its
\* allowed_combo; a declaration that violates either is rejected when the
\* peripheral is constructed: no peripheral is constructed from it.
C19_RejectedAtDeclaration ==
    \A k \in 1..decl.n : ValidDeclaration(decl.declared[k])

\* the peripheral that attach_sensor is called with has the name of one
\* that the hub holds
DuplicateAttachStep ==
    /\ decl.error = ""
    /\ decl.hub
    /\ decl.pending # <<>>
    /\ decl.pending[Len(decl.pending)].name \in names(decl.peripherals)
    /\ decl'.pending # decl.pending

\* C20: attaching a second peripheral with the name of one that is already
\* attached to the hub fails, and Hub.peripherals still holds the first
\* under that name.
C20_DuplicateNameFails ==
    /\ [][ DuplicateAttachStep =>
             /\ decl'.error = "AssertionError"
             /\ decl'.peripherals = decl.peripherals ]_vars
    /\ [](\A j, k \in 1..Len(decl.peripherals) :
             decl.peripherals[j].name = decl.peripherals[k].name => j = k)

\* two lines declare peripherals of different classes with one name: the
\* call has failed and the hub holds the one of the lower line
C20_Witness ==
    /\ decl.error = "AssertionError"
    /\ decl.hub
    /\ Len(decl.declared) = 2
    /\ decl.declared[1].name = decl.declared[2].name
    /\ decl.declared[1].cls # decl.declared[2].cls
    /\ Len(decl.peripherals) = 1
    /\ decl.peripherals[1].cls = decl.declared[2].cls
    /\ decl.pending = <<>>

\* the @attach line of a peripheral of the hub
DeclarationOf(p) ==
    decl.declared[CHOOSE k \in 1..Len(decl.declared) :
                    decl.declared[k].name = p.name]

\* the message loop binds the i-th peripheral and activates it
ActivationStep(i) ==
    /\ i \in 1..Len(decl.peripherals)
    /\ decl.peripherals[i].port = None
    /\ decl'.peripherals[i].port = i

\* C21: the activation of a peripheral with two or more capabilities (of a
\* valid declaration) puts on the message queue, in this order and nothing
\* else: the lock of the port, one input format setup (0x41) for every
\* capability in the order of the declaration with its threshold, the
\* order of the datasets with one byte 16*mode + dataset for every dataset
\* of every capability, and the unlock; with one capability it puts exactly
\* one 0x41 command.
C21_ActivationCommands ==
    [][ \A i \in 1..MaxDecl :
          (ActivationStep(i) /\ ValidDeclaration(DeclarationOf(decl.peripherals[i])))
          => LET kw == DeclarationOf(decl.peripherals[i])
                 n == Len(kw.capabilities)
                 mode(k) == capability(kw.cls)[kw.capabilities[k].name]
                 setup(k) == <<0, 65, i, mode(k), kw.capabilities[k].threshold,
                               0, 0, 0, 1>>
                 sl == slots(kw.cls, [k \in 1..n |-> kw.capabilities[k].name])
             IN  /\ n = 0 => message_queue' = message_queue
                 /\ n = 1 => message_queue' = Append(message_queue, setup(1))
                 /\ n >= 2 =>
                      message_queue' =
                        message_queue
                        \o << <<0, 66, i, 2>> >>
                        \o [k \in 1..n |-> setup(k)]
                        \o << <<0, 66, i, 1, 0>>
                                 \o [j \in 1..Len(sl) |->
                                       16 * capability(kw.cls)[sl[j].cap]
                                       + sl[j].dataset],
                              <<0, 66, i, 3>> >> ]_vars

\* a VisionSensor with sense_color and (sense_rgb, 3) was activated on port 1
C21_Witness ==
    message_queue = << <<0, 66, 1, 2>>,
                       <<0, 65, 1, 0, 1, 0, 0, 0, 1>>,
                       <<0, 65, 1, 6, 3, 0, 0, 0, 1>>,
                       <<0, 66, 1, 1, 0, 0, 96, 97, 98>>,
                       <<0, 66, 1, 3>> >>

\* the capabilities of peripheral p, counted from 1, that are not in the
\* allowed_combo of its class
NotAllowed(p) ==
    {k \in 1..Len(p.capabilities) :
       p.capabilities[k] \notin allowed_combo(p.cls)}

\* C37: when the activation of a peripheral with several capabilities
\* fails the allowed_combo test at its k-th capability, the lock of the
\* port and the setup commands (0x41) of the k-1 capabilities before it
\* have been put on the message queue, in this order, and nothing after
\* them: no order of the datasets and no unlock; the activation ends with
\* an AssertionError.
C37_FailedActivationPrefix ==
    [][ \A i \in 1..MaxDecl :
          (/\ ActivationStep(i)
           /\ Len(decl.peripherals[i].capabilities) >= 2
           /\ NotAllowed(decl.peripherals[i]) # {})
          => LET p == decl.peripherals[i]
                 k == CHOOSE x \in NotAllowed(p) :
                        \A y \in NotAllowed(p) : x <= y
                 added == SubSeq(message_queue', Len(message_queue) + 1,
                                 Len(message_queue'))
             IN  /\ loop_state' = "AssertionError"
                 /\ SubSeq(message_queue', 1, Len(message_queue))
                      = message_queue
                 /\ Len(added) = k
                 /\ added[1] = <<0, 66, i, 2>>
                 /\ \A j \in 1..(k - 1) :
                      added[j + 1] =
                        <<0, 65, i, capability(p.cls)[p.capabilities[j]],
                          p.thresholds[j], 0, 0, 0, 1>>
                 /\ \A j \in 1..Len(added) :
                      ~(added[j][2] = 66 /\ added[j][4] \in {1, 3}) ]_vars

\* the activation of a VisionSensor with sense_color, (sense_distance, 2)
\* and sense_ambient on port 1 failed at its third capability
C37_Witness ==
    /\ loop_state = "AssertionError"
    /\ message_queue = << <<0, 66, 1, 2>>,
                          <<0, 65, 1, 0, 1, 0, 0, 0, 1>>,
                          <<0, 65, 1, 1, 2, 0, 0, 0, 1>> >>

\* the unsigned value of bytes, the lowest first
RECURSIVE LittleEndian(_)
LittleEndian(bytes) ==
    IF bytes = <<>> THEN 0 ELSE Head(bytes) + 256 * LittleEndian(Tail(bytes))

\* update_value of peripheral i has returned
UpdateStep(i) ==
    /\ decl'.updates = decl.updates + 1
    /\ decl'.updated = i
    /\ loop_state' = "running"

\* the bytes of the slots before slot j (counted from 1) that are present
RECURSIVE BytesBefore(_, _, _, _)
BytesBefore(cls, sl, modes, j) ==
    IF j <= 1 THEN 0
    ELSE BytesBefore(cls, sl, modes, j - 1)
         + (IF (modes \div (2 ^ (j - 2))) % 2 = 1
            THEN datasets_of(cls)[sl[j - 1].cap][2] ELSE 0)

SetSpeed ==
    /\ n_calls < MaxSetSpeeds
    /\ message_handler
    /\ ramp_in_progress_task = None
    /\ \E s \in SpeedArgs :
         /\ speed' = s
         /\ message_queue' =
              Append(message_queue, OutputCommand(_convert_speed_to_val(s)))
    /\ n_calls' = n_calls + 1
    /\ UNCHANGED <<ramp_in_progress_task, message_handler, tasks>>

\* An attached motor
SpeedSpecInit ==
    /\ speed = 0
    /\ ramp_in_progress_task = None
    /\ message_handler = TRUE
    /\ tasks = [t \in TaskIds |->
                  IF t \in RampIds THEN NewTask("unborn") ELSE NewTask("idle")]
    /\ n_calls = 0
    /\ peripherals = [i \in PIdx |-> NewPeripheral("Light", None, FALSE)]
    /\ port_to_peripheral = <<>>
    /\ peripheral_queue = <<>>
    /\ port_info = {}
    /\ dispatcher_port_info = <<>>
    /\ message_queue = <<>>
    /\ query_port_info = FALSE
    /\ loop_state = "running"
    /\ handler_calls = [i \in PIdx |-> 0]
    /\ l = [text |-> "", port |-> None]
    /\ n_parsed = 0
    /\ TxInit(FALSE)
    /\ Constructed

SpeedNext ==
    SetSpeed /\ UNCHANGED <<hub_idle, tx_vars, hubs_vars, decl_vars>>

SpeedSpec == SpeedSpecInit /\ [][SpeedNext]_vars

C24_WitnessBrake ==
    /\ speed = -1
    /\ message_queue = << <<0, 129, MotorPort, 1, 81, 0, 127>>,
                          <<0, 129, MotorPort, 1, 81, 0, 255>> >>

(***************************************************************************)
(* Hub properties and port information (messages.py, hub.py), InfoSpec     *)
(***************************************************************************)
\* HubProperties notifications with known codes: the button pressed and
\* released (property 2, operation 6), the battery voltage updated, an
\* update of the button requested, the advertising name updated
HubPropertyMessages ==
    { <<6, 0, 1, 2, 6, 1>>, <<6, 0, 1, 2, 6, 0>>, <<6, 0, 1, 6, 6, 87>>,
      <<5, 0, 1, 2, 5>>, <<7, 0, 1, 1, 6, 72, 105>> }

\* PortInformation notifications.  Mode 1 (port, 1, capabilities, nModes,
\* input modes, output modes): port 1 with capabilities 7, inputs 0 and 1,
\* output 1; port 1 with capabilities 2 and inputs 0 and 8; port 2 with
\* capabilities 9 and output 0.  Mode 2 (port, 2, combinations): port 1
\* with modes 0+1; port 1 with modes 1+2 and a closing 0
PortInformationMessages ==
    { <<11, 0, 67, 1, 1, 7, 2, 3, 0, 2, 0>>,
      <<11, 0, 67, 1, 1, 2, 9, 1, 1, 0, 0>>,
      <<11, 0, 67, 2, 1, 9, 1, 0, 0, 1, 0>>,
      <<7, 0, 67, 1, 2, 3, 0>>,
      <<9, 0, 67, 1, 2, 6, 0, 0, 0>> }

\* PortModeInformation notifications of the value format (0x80) of a mode
\* (port, mode, 0x80, datasets, type, figures, decimals)
PortModeInformationMessages ==
    { <<10, 0, 68, 1, 0, 128, 1, 1, 3, 0>>,
      <<10, 0, 68, 2, 3, 128, 3, 0, 1, 0>> }

\* str() of a list of integers
list_str(msg_bytes) ==
    "[" \o join(", ", [k \in 1..Len(msg_bytes) |-> ToString(msg_bytes[k])])
        \o "]"

\* PortValueMessage.parse: the event it puts and what it appends to l
PortValueMessage_parse(msg_bytes) ==
    [events |-> message_update_value_to_peripheral(Head(msg_bytes),
                                                   Tail(msg_bytes)),
     l |-> << "Port " \o ToString(Head(msg_bytes)) \o " changed value to "
                \o list_str(Tail(msg_bytes)) >>]

\* a parse that would forward every update of a hub property
HubPropertiesMessage_parse_any_update(msg_bytes) ==
    LET prop == msg_bytes[1]
        op == msg_bytes[2]
        rest == SubSeq(msg_bytes, 3, Len(msg_bytes))
        l1 == <<"Hub property: ", prop_names[prop], operation_names[op],
                _parse_msg_bytes(rest)>>
    IN  IF op = 6
        THEN [events |-> PortValueMessage_parse(<<255>> \o rest).events,
              l |-> l1 \o PortValueMessage_parse(<<255>> \o rest).l]
        ELSE [events |-> <<>>, l |-> l1]

\* HubPropertiesMessage.parse of a known property and operation: a button
\* update is passed on as a PortValue message of port 255
HubPropertiesMessage_parse(msg_bytes) ==
    LET prop == msg_bytes[1]
        op == msg_bytes[2]
        rest == SubSeq(msg_bytes, 3, Len(msg_bytes))
        l1 == <<"Hub property: ", prop_names[prop], operation_names[op],
                _parse_msg_bytes(rest)>>
    IN  IF prop = 2 /\ op = 6
        THEN [events |-> PortValueMessage_parse(<<255>> \o rest).events,
              l |-> l1 \o PortValueMessage_parse(<<255>> \o rest).l]
        ELSE [events |-> <<>>, l |-> l1]

\* MessageDispatch.parse of a HubProperties message (type 0x01)
ParseHubProperties ==
    /\ n_parsed < MaxMsgs
    /\ n_parsed' = n_parsed + 1
    /\ \E msg \in HubPropertyMessages :
         LET r == HubPropertiesMessage_parse(split_header(msg).msg_bytes)
         IN  /\ split_header(msg).msg_type = 1
             /\ ~parse_header(msg).raised
             /\ peripheral_queue' = peripheral_queue \o r.events
             /\ l' = [text |-> join(" ", r.l),
                      port |-> IF r.events = <<>> THEN None
                               ELSE r.events[1].port]
    /\ UNCHANGED <<peripherals, port_to_peripheral, port_info,
                   dispatcher_port_info, message_queue, query_port_info,
                   loop_state, handler_calls>>

\* a message_port_info_to_peripheral that would put the message before the
\* update of the port
message_port_info_to_peripheral_message_first(port, message) ==
    << Event(message, port, "", <<>>),
       Event("update_port", port, "", <<>>) >>

\* MessageDispatch.message_port_info_to_peripheral
message_port_info_to_peripheral(port, message) ==
    << Event("update_port", port, "", <<>>),
       Event(message, port, "", <<>>) >>

\* the i of range(16) with bit i of a bitmap set, in the order of the loop
set_bits(bitmap) ==
    SelectSeq([k \in 1..16 |-> k - 1], LAMBDA i : bit(bitmap, i))

\* capabilities & 1<<i
masked(capabilities, i) == IF bit(capabilities, i) THEN 2 ^ i ELSE 0

\* PortInformationMessage._parse_mode_info: the four flags of the port
_parse_mode_info(capabilities, port_info_item) ==
    [info |-> [port_info_item EXCEPT
                 !.output = masked(capabilities, 0),
                 !.input = masked(capabilities, 1),
                 !.combinable = masked(capabilities, 2),
                 !.synchronizable = masked(capabilities, 3)],
     l |-> <<" INFO:">>
           \o (IF bit(capabilities, 0) THEN <<"out">> ELSE <<>>)
           \o (IF bit(capabilities, 1) THEN <<"inp">> ELSE <<>>)
           \o (IF bit(capabilities, 2) THEN <<"com">> ELSE <<>>)
           \o (IF bit(capabilities, 3) THEN <<"syn">> ELSE <<>>)]

\* modes_info.setdefault(i, {})[key] = True for the i of a loop
RECURSIVE mark_modes(_, _, _)
mark_modes(modes_info, is, key) ==
    IF is = <<>> THEN modes_info
    ELSE LET m == modes_setdefault(modes_info, Head(is))
         IN  mark_modes([k \in 1..Len(m) |->
                           IF m[k].mode = Head(is)
                           THEN [m[k] EXCEPT ![key] = TRUE] ELSE m[k]],
                        Tail(is), key)

\* a _parse_mode_info_input_output that would mark the modes of the input
\* bitmap as outputs and those of the output bitmap as inputs
_parse_mode_info_swapped(msg_bytes, modes_info) ==
    LET input_modes == msg_bytes[1] + msg_bytes[2] * 256
        output_modes == msg_bytes[3] + msg_bytes[4] * 256
    IN  [modes |-> mark_modes(mark_modes(modes_info, set_bits(input_modes),
                                         "output"),
                              set_bits(output_modes), "input"),
         l |-> [k \in 1..Len(set_bits(input_modes)) |->
                  ToString(set_bits(input_modes)[k])]
               \o <<", output: ">>
               \o [k \in 1..Len(set_bits(output_modes)) |->
                     ToString(set_bits(output_modes)[k])]]

\* PortInformationMessage._parse_mode_info_input_output: the two bitmaps
\* are little-endian 16 bit values
_parse_mode_info_input_output(msg_bytes, modes_info) ==
    LET input_modes == msg_bytes[1] + msg_bytes[2] * 256
        output_modes == msg_bytes[3] + msg_bytes[4] * 256
    IN  [modes |-> mark_modes(mark_modes(modes_info, set_bits(input_modes),
                                         "input"),
                              set_bits(output_modes), "output"),
         l |-> [k \in 1..Len(set_bits(input_modes)) |->
                  ToString(set_bits(input_modes)[k])]
               \o <<", output: ">>
               \o [k \in 1..Len(set_bits(output_modes)) |->
                     ToString(set_bits(output_modes)[k])]]

\* '+'.join([f'Mode {m}' for m in cmodes])
combination_str(cmodes) ==
    join("+", [k \in 1..Len(cmodes) |-> "Mode " \o ToString(cmodes[k])])

\* PortInformationMessage._parse_combination_info, its while loop from a
\* mode_combo on: the lists of modes and what it appends to l
RECURSIVE combinations(_, _)
combinations(mode_combo, msg_bytes) ==
    IF mode_combo = 0 THEN [mode_combinations |-> <<>>, l |-> <<>>]
    ELSE LET rest == IF msg_bytes = <<>>
                     THEN [mode_combinations |-> <<>>, l |-> <<>>]
                     ELSE LET r == combinations(
                                     msg_bytes[1] + msg_bytes[2] * 256,
                                     SubSeq(msg_bytes, 3, Len(msg_bytes)))
                          IN  [mode_combinations |-> r.mode_combinations,
                               l |-> <<", ">> \o r.l]
         IN  [mode_combinations |->
                <<set_bits(mode_combo)>> \o rest.mode_combinations,
              l |-> <<combination_str(set_bits(mode_combo))>> \o rest.l]

\* PortInformationMessage._parse_combination_info
_parse_combination_info(msg_bytes, port_info_item) ==
    LET r == combinations(msg_bytes[1] + msg_bytes[2] * 256,
                          SubSeq(msg_bytes, 3, Len(msg_bytes)))
    IN  [info |-> [port_info_item EXCEPT
                     !.mode_combinations = r.mode_combinations],
         l |-> <<"Combinations:">> \o r.l]

\* PortInformationMessage.parse of mode 1 or 2: the port's dict afterwards,
\* the events it puts and what it appends to l
PortInformationMessage_parse(msg_bytes, info) ==
    LET port == msg_bytes[1]
        mode == msg_bytes[2]
        l1 == << "Port " \o ToString(port) \o " Mode " \o ToString(mode)
                   \o ":" >>
        port_info_item == setdefault_modes(setdefault(info, port)[port])
    IN  IF mode = 1
        THEN LET f == _parse_mode_info(msg_bytes[3], port_info_item)
                 nModes == msg_bytes[4]
                 m == _parse_mode_info_input_output(
                        SubSeq(msg_bytes, 5, Len(msg_bytes)), f.info.modes)
             IN  [info |-> Put(info, port, [f.info EXCEPT !.modes = m.modes]),
                  events |->
                    message_port_info_to_peripheral(port, "port_info_received"),
                  l |-> l1 \o f.l
                        \o << "nModes:" \o ToString(nModes) \o ", input:" >>
                        \o m.l]
        ELSE LET c == _parse_combination_info(
                        SubSeq(msg_bytes, 3, Len(msg_bytes)), port_info_item)
             IN  [info |-> Put(info, port, c.info),
                  events |->
                    message_port_info_to_peripheral(
                      port, "port_combination_info_received"),
                  l |-> l1 \o c.l]

\* MessageDispatch.parse of a PortInformation message (type 0x43)
ParsePortInformation ==
    /\ n_parsed < MaxMsgs
    /\ n_parsed' = n_parsed + 1
    /\ \E msg \in PortInformationMessages :
         LET r == PortInformationMessage_parse(split_header(msg).msg_bytes,
                                               dispatcher_port_info)
         IN  /\ split_header(msg).msg_type = 67
             /\ ~parse_header(msg).raised
             /\ dispatcher_port_info' = r.info
             /\ peripheral_queue' = peripheral_queue \o r.events
             /\ l' = [text |-> join(" ", r.l), port |-> r.events[1].port]
    /\ UNCHANGED <<peripherals, port_to_peripheral, port_info, message_queue,
                   query_port_info, loop_state, handler_calls>>

\* PortModeInformationMessage._parse_format
dataset_types == <<"8b", "16b", "32b", "float">>
_parse_format(msg_bytes, mode_info) ==
    [mode_info EXCEPT !.datasets = msg_bytes[1],
                      !.dataset_type = dataset_types[msg_bytes[2] + 1],
                      !.dataset_total_figures = msg_bytes[3],
                      !.dataset_decimals = msg_bytes[4]]

\* PortModeInformationMessage.parse of a value format
PortModeInformationMessage_parse(msg_bytes, info) ==
    LET port == msg_bytes[1]
        mode == msg_bytes[2]
        port_info_item == setdefault_modes(setdefault(info, port)[port])
        m == modes_setdefault(port_info_item.modes, mode)
        modes_info ==
          [k \in 1..Len(m) |->
             IF m[k].mode = mode
             THEN _parse_format(SubSeq(msg_bytes, 4, Len(msg_bytes)), m[k])
             ELSE m[k]]
    IN  [info |-> Put(info, port, [port_info_item EXCEPT !.modes = modes_info]),
         events |->
           message_port_info_to_peripheral(port, "port_mode_info_received"),
         l |-> << "MODE INFO Port:" \o ToString(port) \o " Mode:"
                    \o ToString(mode) >>]

\* MessageDispatch.parse of a PortModeInformation message (type 0x44)
ParsePortModeInformation ==
    /\ n_parsed < MaxMsgs
    /\ n_parsed' = n_parsed + 1
    /\ \E msg \in PortModeInformationMessages :
         LET r == PortModeInformationMessage_parse(
                    split_header(msg).msg_bytes, dispatcher_port_info)
         IN  /\ split_header(msg).msg_type = 68
             /\ split_header(msg).msg_bytes[3] = 128
             /\ dispatcher_port_info' = r.info
             /\ peripheral_queue' = peripheral_queue \o r.events
             /\ l' = [text |-> join(" ", r.l), port |-> r.events[1].port]
    /\ UNCHANGED <<peripherals, port_to_peripheral, port_info, message_queue,
                   query_port_info, loop_state, handler_calls>>

\* the declarations of the hub button: @attach(Button, name=...) without
\* capabilities, on a hub class with and without the handler of its name,
\* and with capabilities=['sense_press'], which needs the handler.
\* Button.__init__ sets the port to 255.
ButtonDeclarations ==
    { [NewPeripheral("Button", ButtonPort, h) EXCEPT !.capabilities = caps] :
        h \in BOOLEAN, caps \in {<<>>, <<0>>} }
    \ { [NewPeripheral("Button", ButtonPort, FALSE) EXCEPT !.capabilities = <<0>>] }

\* A connected hub, created with or without query_port_info, whose class
\* declares voltage sensors, or the hub button and a voltage sensor
InfoSpecInit ==
    /\ peripherals \in
         [PIdx -> ButtonDeclarations
                    \cup {NewPeripheral("VoltageSensor", None, TRUE)}]
    /\ \A i \in PIdx \ {1} : peripherals[i].cls = "VoltageSensor"
    /\ port_to_peripheral = <<>>
    /\ peripheral_queue = ButtonAttachEvents
    /\ port_info = {}
    /\ dispatcher_port_info =
         (ButtonPort :> [EmptyPortInfo EXCEPT !.id = 5, !.name = DEVICES[5]])
    /\ message_queue = <<>>
    /\ query_port_info \in BOOLEAN
    /\ loop_state = "running"
    /\ handler_calls = [i \in PIdx |-> 0]
    /\ l = [text |-> "Attached IO Port", port |-> ButtonPort]
    /\ n_parsed = 0
    /\ MotorInit
    /\ TxInit(FALSE)
    /\ Constructed

InfoNext ==
    \/ ParseHubProperties /\ UNCHANGED <<motor_vars, tx_vars, hubs_vars, decl_vars>>
    \/ ParsePortInformation /\ UNCHANGED <<motor_vars, tx_vars, hubs_vars, decl_vars>>
    \/ ParsePortModeInformation /\ UNCHANGED <<motor_vars, tx_vars, hubs_vars, decl_vars>>
    \/ ParseUnknown /\ UNCHANGED <<motor_vars, tx_vars, hubs_vars, decl_vars>>
    \/ LoopAttach /\ UNCHANGED <<motor_vars, tx_vars, hubs_vars, decl_vars>>
    \/ LoopValueChange /\ UNCHANGED <<motor_vars, tx_vars, hubs_vars, decl_vars>>
    \/ LoopUpdatePort /\ UNCHANGED <<motor_vars, tx_vars, hubs_vars, decl_vars>>
    \/ LoopPort /\ UNCHANGED <<motor_vars, tx_vars, hubs_vars, decl_vars>>

InfoSpec == InfoSpecInit /\ [][InfoNext]_vars

\* the log of a parsed button update of the hub, pressed (1) or released (0)
ButtonUpdateLog(pressed) ==
    IF pressed = 1
    THEN "Hub property:  Button Update (Upstream) 0x1 Port 255 changed value to [1]"
    ELSE "Hub property:  Button Update (Upstream) 0x0 Port 255 changed value to [0]"

\* the logs of the other hub property messages: a known property and
\* operation that is no button update, an unknown property, an unknown
\* operation
OtherPropertyLogs ==
    { "Hub property:  Battery Voltage Update (Upstream) 0x57",
      "Hub property:  Button Request Update (Downstream) ",
      "Hub property:  Advertising Name Update (Upstream) 0x48:0x69",
      "Hub property:  0x5:0x0:0x1:0x0:0x6",
      "Hub property:  Button 0x6:0x0:0x1:0x2:0x9:0x1" }

\* C28: a hub property message of the button (0x02) with the update
\* operation (0x06) puts exactly one value_change event of port 255 with
\* the remaining payload bytes on the queue; a hub property message of
\* another property or operation puts no event on the queue.
C28_ButtonUpdate ==
    [][ /\ ParseHubProperties
          => l'.text \in {ButtonUpdateLog(0), ButtonUpdateLog(1)}
                           \cup OtherPropertyLogs
        /\ \A pressed \in {0, 1} :
             (n_parsed' = n_parsed + 1 /\ l'.text = ButtonUpdateLog(pressed))
             => peripheral_queue' =
                  Append(peripheral_queue,
                         [msg |-> "value_change", port |-> 255,
                          device_name |-> "", msg_bytes |-> <<pressed>>])
        /\ (n_parsed' = n_parsed + 1 /\ l'.text \in OtherPropertyLogs)
             => peripheral_queue' = peripheral_queue ]_vars

\* the button was pressed and released, then the battery voltage came: two
\* value_change events of port 255 are behind the events of the connection
C28_Witness ==
    /\ n_parsed = 3
    /\ l.text = "Hub property:  Battery Voltage Update (Upstream) 0x57"
    /\ peripheral_queue =
         ButtonAttachEvents
           \o << [msg |-> "value_change", port |-> 255, device_name |-> "",
                  msg_bytes |-> <<1>>],
                 [msg |-> "value_change", port |-> 255, device_name |-> "",
                  msg_bytes |-> <<0>>] >>

\* the message loop takes an event with msg.startswith('port') off the queue
PortEventStep ==
    /\ loop_state = "running"
    /\ peripheral_queue # <<>>
    /\ Head(peripheral_queue).msg \in
         {"port_detected", "port_info_received", "port_mode_info_received",
          "port_combination_info_received"}
    /\ peripheral_queue' = Tail(peripheral_queue)

\* C29: queries for port meta-data (types 0x21 and 0x22) are sent only by
\* a hub created with query_port_info: without the flag no port_detected,
\* port_info_received, port_mode_info_received or
\* port_combination_info_received event makes the hub send anything; with
\* the flag the query for the mode combinations (0x21, mode 2) is sent only
\* on the port_info_received of a port whose combinable flag is set.
C29_QueriesOptIn ==
    /\ [](\A k \in 1..Len(message_queue) :
            message_queue[k][2] \in {33, 34} => query_port_info)
    /\ [][ /\ (PortEventStep /\ ~query_port_info)
             => message_queue' = message_queue
           /\ \A k \in (Len(message_queue) + 1)..Len(message_queue') :
                (message_queue'[k][2] = 33 /\ message_queue'[k][4] = 2)
                => /\ query_port_info
                   /\ PortEventStep
                   /\ Head(peripheral_queue).msg = "port_info_received"
                   /\ Head(peripheral_queue).port = message_queue'[k][3]
                   /\ dispatcher_port_info[message_queue'[k][3]].combinable = 4
         ]_vars

\* with the flag: the modes of ports 1 and 2 were asked for, the mode
\* combinations of port 1, which is combinable, and not those of port 2
C29_Witness ==
    /\ query_port_info
    /\ \E k \in 1..Len(message_queue) : message_queue[k] = <<0, 33, 1, 2>>
    /\ \E k \in 1..Len(message_queue) : message_queue[k] = <<0, 34, 1, 1, 128>>
    /\ \E k \in 1..Len(message_queue) : message_queue[k] = <<0, 34, 2, 0, 0>>
    /\ \A k \in 1..Len(message_queue) : message_queue[k] # <<0, 33, 2, 2>>
    /\ dispatcher_port_info[2].combinable = 0

\* mode i of the port has the mark key ('input' or 'output') in info
IsMarked(info, port, i, key) ==
    /\ port \in DOMAIN info
    /\ \E k \in 1..Len(info[port].modes) :
         /\ info[port].modes[k].mode = i
         /\ info[port].modes[k][key]

\* the port information messages of mode 1 by their logs: the port, what
\* bits 0..3 of the capability byte leave in the four flags, and the bits
\* that are set in the two bitmaps
PortInformationRows ==
    { [text |-> "Port 1 Mode 1:  INFO: out inp com nModes:2, input: 0 1 , output:  1",
       port |-> 1, output |-> 1, input |-> 2, combinable |-> 4,
       synchronizable |-> 0, input_modes |-> {0, 1}, output_modes |-> {1}],
      [text |-> "Port 1 Mode 1:  INFO: inp nModes:9, input: 0 8 , output: ",
       port |-> 1, output |-> 0, input |-> 2, combinable |-> 0,
       synchronizable |-> 0, input_modes |-> {0, 8}, output_modes |-> {}],
      [text |-> "Port 2 Mode 1:  INFO: out syn nModes:1, input: , output:  0",
       port |-> 2, output |-> 1, input |-> 0, combinable |-> 0,
       synchronizable |-> 8, input_modes |-> {}, output_modes |-> {0}] }

\* C30: a port information message of mode 1 sets the port's output, input,
\* combinable and synchronizable flags from bits 0..3 of the capability
\* byte, marks mode i as input (as output) for exactly the bits i that are
\* set in the 16 bit little-endian input (output) bitmap, the marks of
\* earlier messages staying, and then puts 'update_port' followed by
\* 'port_info_received' of the port on the queue.
C30_PortInformation ==
    [][ /\ (/\ ParsePortInformation
            /\ peripheral_queue'[Len(peripheral_queue')].msg
                 = "port_info_received")
          => l'.text \in {r.text : r \in PortInformationRows}
        /\ \A r \in PortInformationRows :
             (n_parsed' = n_parsed + 1 /\ l'.text = r.text)
             => /\ dispatcher_port_info'[r.port].output = r.output
                /\ dispatcher_port_info'[r.port].input = r.input
                /\ dispatcher_port_info'[r.port].combinable = r.combinable
                /\ dispatcher_port_info'[r.port].synchronizable
                     = r.synchronizable
                /\ \A i \in 0..15 :
                     /\ IsMarked(dispatcher_port_info', r.port, i, "input")
                          <=> \/ i \in r.input_modes
                              \/ IsMarked(dispatcher_port_info, r.port, i,
                                          "input")
                     /\ IsMarked(dispatcher_port_info', r.port, i, "output")
                          <=> \/ i \in r.output_modes
                              \/ IsMarked(dispatcher_port_info, r.port, i,
                                          "output")
                /\ peripheral_queue' =
                     peripheral_queue
                       \o << [msg |-> "update_port", port |-> r.port,
                              device_name |-> "", msg_bytes |-> <<>>],
                             [msg |-> "port_info_received", port |-> r.port,
                              device_name |-> "", msg_bytes |-> <<>>] >> ]_vars

\* port 1 has reported capabilities 7 with inputs 0 and 1 and output 1, and
\* then capabilities 2 with inputs 0 and 8
C30_Witness ==
    /\ n_parsed = 2
    /\ l.text = "Port 1 Mode 1:  INFO: inp nModes:9, input: 0 8 , output: "
    /\ dispatcher_port_info[1].combinable = 0
    /\ {i \in 0..15 : IsMarked(dispatcher_port_info, 1, i, "input")} = {0, 1, 8}
    /\ {i \in 0..15 : IsMarked(dispatcher_port_info, 1, i, "output")} = {1}
    /\ Len(peripheral_queue) >= 2
    /\ peripheral_queue[Len(peripheral_queue)].msg = "port_info_received"
    /\ peripheral_queue[Len(peripheral_queue) - 1].msg = "update_port"

(***************************************************************************)
(* DuploSpeedSensor.update_value (sensor/sensor.py), DuploSpec             *)
(***************************************************************************)
\* the capabilities of the declared DuploSpeedSensor
DuploCapLists ==
    { <<"sense_speed", "sense_count">>, <<"sense_count", "sense_speed">>,
      <<"sense_speed">> }

\* the payloads of its value updates: after the leading 0 and the mask of
\* the slots a speed of two bytes (0xFFFE, 300, 0x8000, 10, 0xFFF6) and a count of
\* four bytes, in the order of a sensor with sense_speed first
DuploPayloads ==
    { <<0, 3, 254, 255, 1, 0, 0, 0>>, <<0, 3, 44, 1, 5, 0, 0, 0>>,
      <<0, 3, 0, 128, 7, 0, 0, 0>>, <<0, 2, 2, 0, 0, 0>>, <<0, 1, 10, 0>>,
      <<0, 1, 246, 255>>, <<0, 0>> }

\* x & (1 << i) of a Python int, which has the bits of the two's complement
\* of any width; a value of the model is within 32 bits
sign_bit(x, i) == IF i = 31 THEN x < 0 ELSE bit(x % (2 ^ (i + 1)), i)

\* DuploSpeedSensor.update_value, one of its two `if cap in self.value`:
\* the stored value is negated if its sign bit is set
negate(r, cap, bits) ==
    IF r.error # "" THEN r
    ELSE IF r.value.kind # "dict" THEN [r EXCEPT !.error = "TypeError"]
    ELSE IF cap \notin DOMAIN r.value.d THEN r
    ELSE IF ~r.value.d[cap].scalar
    THEN \* [None] & (1 << 15)
         [r EXCEPT !.error = "TypeError"]
    ELSE IF sign_bit(r.value.d[cap].v[1], bits - 1)
    THEN [r EXCEPT !.value.d[cap].v[1] = -((2 ^ (bits \div 2)) * (2 ^ (bits \div 2)) - @)]
    ELSE r

\* DuploSpeedSensor.update_value: the new self.value and the exception
DuploSpeedSensor_update_value(p, msg_bytes) ==
    negate(negate(Peripheral_update_value(p, msg_bytes), "sense_speed", 16),
           "sense_count", 32)

\* Hub.peripheral_message_loop takes a value_change event of the port of
\* the sensor: update_value is awaited
DuploUpdateValue ==
    /\ loop_state = "running"
    /\ decl.updates < MaxDuploUpdates
    /\ decl.peripherals[1].port # None
    /\ \E msg_bytes \in DuploPayloads :
         LET r == DuploSpeedSensor_update_value(decl.peripherals[1], msg_bytes)
         IN  /\ decl' = [decl EXCEPT !.peripherals[1].value = r.value,
                                      !.updates = @ + 1,
                                      !.updated = 1,
                                      !.msg_bytes = msg_bytes]
             /\ loop_state' = IF r.error = "" THEN "running" ELSE r.error
    /\ UNCHANGED message_queue

\* A hub with one DuploSpeedSensor, called and connected
DuploSpecInit ==
    /\ \E caps \in DuploCapLists :
         decl = [Called EXCEPT
                   !.peripherals =
                     << [name |-> "speed_sensor", cls |-> "DuploSpeedSensor",
                         port |-> None, capabilities |-> caps,
                         thresholds |-> [k \in 1..Len(caps) |-> DEFAULT_THRESHOLD],
                         value |-> [kind |-> "None", d |-> <<>>, raw |-> <<>>],
                         message_handler |-> FALSE] >>]
    /\ hubs = <<>>
    /\ run_all = [pc |-> "join", hub |-> 0]
    /\ MotorInit
    /\ TxInit(FALSE)
    /\ peripherals = [i \in PIdx |-> NewPeripheral("Light", None, FALSE)]
    /\ port_to_peripheral = <<>>
    /\ peripheral_queue = <<>>
    /\ port_info = {}
    /\ dispatcher_port_info = <<>>
    /\ message_queue = <<>>
    /\ query_port_info = FALSE
    /\ loop_state = "running"
    /\ handler_calls = [i \in PIdx |-> 0]
    /\ l = [text |-> "", port |-> None]
    /\ n_parsed = 0

DuploNext ==
    \/ ActivateOnAttach(1) /\ UNCHANGED decl_idle
    \/ DuploUpdateValue /\ UNCHANGED decl_idle

DuploSpec == DuploSpecInit /\ [][DuploNext]_vars

\* the value that the sensor stores for a capability, None for [None]
Stored(p, cap) ==
    IF p.value.d[cap].scalar THEN p.value.d[cap].v[1] ELSE None

\* the raw value of a capability in a combined update: the little-endian
\* value of the bytes of its slot
RawOf(p, msg, cap) ==
    LET sl == slots(p.cls, p.capabilities)
        j == CHOOSE k \in 1..Len(sl) : sl[k].cap = cap
        at == 2 + BytesBefore(p.cls, sl, msg[2], j)
    IN  LittleEndian(SubSeq(msg, at + 1, at + datasets_of(p.cls)[cap][2]))

\* whether a combined update carries the slot of a capability
Carries(p, msg, cap) ==
    LET sl == slots(p.cls, p.capabilities)
        j == CHOOSE k \in 1..Len(sl) : sl[k].cap = cap
    IN  bit(msg[2], j - 1)

\* C31: for a DuploSpeedSensor with sense_speed and sense_count, a combined
\* update that carries the slot of sense_speed stores the raw value read as
\* a signed 16 bit number (of sense_count: as a signed 32 bit number), and
\* an update whose mask omits the slot leaves the stored value as it was
\* (of the updates whose payload has the bytes of the slots it carries).
C31_SignedValuesKept ==
    [][ (/\ decl'.updates = decl.updates + 1
         /\ Len(decl.peripherals[1].capabilities) = 2
         /\ loop_state' \notin {"struct.error", "IndexError"})
        => LET p == decl.peripherals[1]
               q == decl'.peripherals[1]
               msg == decl'.msg_bytes
           IN  /\ IF Carries(p, msg, "sense_speed")
                  THEN Stored(q, "sense_speed") =
                         IF RawOf(p, msg, "sense_speed") >= 32768
                         THEN RawOf(p, msg, "sense_speed") - 65536
                         ELSE RawOf(p, msg, "sense_speed")
                  ELSE Stored(q, "sense_speed") = Stored(p, "sense_speed")
               /\ IF Carries(p, msg, "sense_count")
                  THEN Stored(q, "sense_count") = RawOf(p, msg, "sense_count")
                  ELSE Stored(q, "sense_count") = Stored(p, "sense_count")
      ]_vars

(***************************************************************************)
(* Properties of the hub with its button, checked under InfoSpec           *)
(***************************************************************************)
\* the message loop takes a value_change event of a port that has a
\* peripheral bound to it
BoundValueChangeStep ==
    /\ loop_state = "running"
    /\ peripheral_queue # <<>>
    /\ Head(peripheral_queue).msg = "value_change"
    /\ Head(peripheral_queue).port \in DOMAIN port_to_peripheral
    /\ peripheral_queue' = Tail(peripheral_queue)

\* C32: whenever the message loop processes a value_change of a bound
\* peripheral, the hub has the handler '<name>_change' of the peripheral
\* and awaits it exactly once, after the value was updated; so for every
\* peripheral that the attach decorator accepts, also for one without
\* capabilities.
C32_HandlerAwaited ==
    [][ BoundValueChangeStep
        => LET i == port_to_peripheral[Head(peripheral_queue).port]
           IN  /\ peripherals[i].handler
               /\ handler_calls'[i] = handler_calls[i] + 1
               /\ \A j \in PIdx \ {i} : handler_calls'[j] = handler_calls[j]
               /\ peripherals'[i].value.kind # "None"
               /\ loop_state' = "running" ]_vars

(***************************************************************************)
(* The connection of a hub, and commands sent before it (ble_queue.py:     *)
(* connect, get_messages; hub.py and peripheral.py: send_message)          *)
(***************************************************************************)
\* A task of the user's program that sends a command.  state is "idle",
\* "sleeping" (in the sleep(1) of a send_message) or "ready", pc the loop it
\* sleeps in, peripheral the peripheral it sends through (None: it calls
\* Hub.send_message itself), msg_bytes the command and returned the calls
\* it has returned from.
NewSender ==
    [state |-> "idle", pc |-> "", peripheral |-> None, msg_bytes |-> <<>>,
     returned |-> 0]

\* what a send_message reads and writes
SenderState == [tasks |-> tasks, message_queue |-> message_queue]

\* a Hub.send_message that would not wait for the handle of the uart
Hub_send_message_unconnected(st, t, has_tx) ==
    [st EXCEPT !.message_queue = Append(@, st.tasks[t].msg_bytes),
               !.tasks[t].state = "idle",
               !.tasks[t].pc = "",
               !.tasks[t].returned = @ + 1]

\* Hub.send_message: `while not self.tx: await sleep(1)`, then the put
Hub_send_message(st, t, has_tx) ==
    IF has_tx
    THEN [st EXCEPT !.message_queue = Append(@, st.tasks[t].msg_bytes),
                    !.tasks[t].state = "idle",
                    !.tasks[t].pc = "",
                    !.tasks[t].returned = @ + 1]
    ELSE [st EXCEPT !.tasks[t].state = "sleeping",
                    !.tasks[t].pc = "Hub.send_message"]

\* Peripheral.send_message: `while not self.message_handler: await sleep(1)`,
\* then the handler, which is Hub.send_message
Peripheral_send_message(st, t, handler, has_tx) ==
    IF handler
    THEN Hub_send_message(st, t, has_tx)
    ELSE [st EXCEPT !.tasks[t].state = "sleeping",
                    !.tasks[t].pc = "Peripheral.send_message"]

\* the state of the sender after a step
Sent(st) ==
    /\ tasks' = st.tasks
    /\ message_queue' = st.message_queue

conn_idle == <<peripherals, port_to_peripheral, peripheral_queue, port_info,
               dispatcher_port_info, query_port_info, loop_state,
               handler_calls, l, n_parsed, speed, ramp_in_progress_task,
               message_handler, tx_vars, hubs_vars, decl_vars>>

\* Peripheral.set_output(0, 30) of peripheral i, called by task c: the
\* command is built with the port that the peripheral has at the call
CallSetOutput(c) ==
    /\ tasks[c].state = "idle"
    /\ n_calls < MaxSends
    /\ n_calls' = n_calls + 1
    /\ \E i \in PIdx :
         Sent(Peripheral_send_message(
                [SenderState EXCEPT
                   !.tasks[c].peripheral = i,
                   !.tasks[c].msg_bytes =
                      <<0, 129, peripherals[i].port, 1, 81, 0, 30>>],
                c, peripherals[i].message_handler, tx))
    /\ UNCHANGED conn_idle

\* Hub.send_message called by task c with a command of its own
CallHubSendMessage(c) ==
    /\ tasks[c].state = "idle"
    /\ n_calls < MaxSends
    /\ n_calls' = n_calls + 1
    /\ Sent(Hub_send_message(
              [SenderState EXCEPT !.tasks[c].peripheral = None,
                                  !.tasks[c].msg_bytes = <<0, 2, 1>>],
              c, tx))
    /\ UNCHANGED conn_idle

\* the sleep(1) of a waiting send_message is over
SenderWake(c) ==
    /\ tasks[c].state = "sleeping"
    /\ tasks' = [tasks EXCEPT ![c].state = "ready"]
    /\ UNCHANGED <<message_queue, n_calls, conn_idle>>

\* the task tests the condition of its loop again
SenderRun(c) ==
    /\ tasks[c].state = "ready"
    /\ IF tasks[c].pc = "Peripheral.send_message"
       THEN Sent(Peripheral_send_message(
                   SenderState, c,
                   peripherals[tasks[c].peripheral].message_handler, tx))
       ELSE Sent(Hub_send_message(SenderState, c, tx))
    /\ UNCHANGED <<n_calls, conn_idle>>

\* a get_messages that would only ask for the notifications
get_messages_notify_only ==
    /\ IF ble_q.USE_BLEAK
       THEN /\ in_queue' = Append(in_queue, [msg |-> "notify", val |-> <<>>])
            /\ UNCHANGED ble_q
       ELSE /\ ble_q' = [ble_q EXCEPT !.notify = TRUE]
            /\ UNCHANGED in_queue
    /\ UNCHANGED <<peripherals, port_to_peripheral, peripheral_queue,
                   port_info, dispatcher_port_info, l>>

\* BLEventQ.get_messages: the attach message of the hub button on port 255
\* is parsed, then the callback of the notifications is registered: with
\* bleak by a 'notify' request to its loop, else by start_notify
get_messages ==
    /\ ParseAttachedIO(ButtonPort, 1, sensor_id("Button"), 0, 0)
    /\ IF ble_q.USE_BLEAK
       THEN /\ in_queue' = Append(in_queue, [msg |-> "notify", val |-> <<>>])
            /\ UNCHANGED ble_q
       ELSE /\ ble_q' = [ble_q EXCEPT !.notify = TRUE]
            /\ UNCHANGED in_queue

\* BLEventQ.connect, from `hub.tx = ...` on: no task runs between this
\* assignment and the end of get_messages
Connect ==
    /\ ~tx
    /\ tx' = TRUE
    /\ get_messages
    /\ UNCHANGED <<message_queue, query_port_info, loop_state, handler_calls,
                   n_parsed, motor_vars, written, sent, hubs_vars, decl_vars>>

\* _run_all, after its loop of connections:
\* task_listen = await spawn(hub.peripheral_message_loop())
SpawnMessageLoop ==
    /\ tx
    /\ loop_state = "unspawned"
    /\ loop_state' = "running"
    /\ UNCHANGED <<peripherals, port_to_peripheral, peripheral_queue,
                   port_info, dispatcher_port_info, message_queue,
                   query_port_info, handler_calls, l, n_parsed, motor_vars,
                   tx_vars, hubs_vars, decl_vars>>

\* the callback of the notifications parses an attach message of the hub
Notified ==
    /\ ble_q.notify
    /\ n_parsed < MaxNotified
    /\ n_parsed' = n_parsed + 1
    /\ \E port \in DeclPorts, device_id \in NotifiedDevices :
         ParseAttachedIO(port, 1, device_id, 0, 0)
    /\ UNCHANGED <<message_queue, query_port_info, loop_state, handler_calls,
                   motor_vars, tx_vars, hubs_vars, decl_vars>>

\* A hub before _run_all connects it, under either BLE library: its class
\* declares the hub button or a light without a port, and a light without
\* a port or a voltage sensor on port 1; the tasks have sent nothing yet
ConnectSpecInit ==
    /\ peripherals \in
         [PIdx -> {NewPeripheral("Button", ButtonPort, TRUE),
                   NewPeripheral("Light", None, FALSE),
                   NewPeripheral("VoltageSensor", 1, TRUE)}]
    /\ peripherals[1].cls # "VoltageSensor"
    /\ \A i \in PIdx \ {1} : peripherals[i].cls # "Button"
    /\ port_to_peripheral = <<>>
    /\ peripheral_queue = <<>>
    /\ port_info = {}
    /\ dispatcher_port_info = <<>>
    /\ message_queue = <<>>
    /\ query_port_info \in BOOLEAN
    /\ loop_state = "unspawned"
    /\ handler_calls = [i \in PIdx |-> 0]
    /\ l = [text |-> "", port |-> None]
    /\ n_parsed = 0
    /\ speed = 0
    /\ ramp_in_progress_task = None
    /\ message_handler = FALSE
    /\ tasks = [c \in CallerIds |-> NewSender]
    /\ n_calls = 0
    /\ in_queue = <<>>
    /\ written = <<>>
    /\ sent = <<>>
    /\ \E USE_BLEAK \in BOOLEAN :
         ble_q = [USE_BLEAK |-> USE_BLEAK, run |-> "running",
                  cancel_pending |-> FALSE, done |-> FALSE,
                  notify |-> FALSE, disconnected |-> FALSE]
    /\ tx = FALSE
    /\ Constructed

ConnectNext ==
    \/ Connect
    \/ SpawnMessageLoop
    \/ AsyncioLoop /\ UNCHANGED tx_idle
    \/ Notified
    \/ LoopAttach /\ UNCHANGED <<motor_vars, tx_vars, hubs_vars, decl_vars>>
    \/ LoopUpdatePort /\ UNCHANGED <<motor_vars, tx_vars, hubs_vars, decl_vars>>
    \/ LoopPort /\ UNCHANGED <<motor_vars, tx_vars, hubs_vars, decl_vars>>
    \/ \E c \in CallerIds : CallSetOutput(c)
    \/ \E c \in CallerIds : CallHubSendMessage(c)
    \/ \E c \in CallerIds : SenderWake(c)
    \/ \E c \in CallerIds : SenderRun(c)

ConnectSpec == ConnectSpecInit /\ [][ConnectNext]_vars

(***************************************************************************)
(* Properties of the connection, checked under ConnectSpec                 *)
(***************************************************************************)
\* the peripheral of the command of task c is bound: an attach event gave
\* it its port and its message_handler
Bound(c) ==
    LET i == tasks[c].peripheral
    IN  /\ peripherals[i].message_handler
        /\ peripherals[i].port # None
        /\ peripherals[i].port \in DOMAIN port_to_peripheral
        /\ port_to_peripheral[peripherals[i].port] = i

\* the command of task c may be put on the queue
MayPut(c) == tx /\ (tasks[c].peripheral # None => Bound(c))

\* C34: no command is put on the hub's message queue before Hub.tx is set,
\* and no command sent through a peripheral before an attach event has
\* bound the peripheral and set its message_handler; a command that is
\* sent earlier waits in a sleep and is tested again after it, and it is
\* put on the queue, once, by the first test that finds both.
C34_NoCommandBeforeConnect ==
    /\ [](~tx => message_queue = <<>>)
    /\ [][ /\ message_queue' # message_queue => tx
           /\ \A c \in CallerIds :
                /\ tasks'[c].returned # tasks[c].returned =>
                     /\ tx
                     /\ tasks'[c].peripheral # None =>
                          LET i == tasks'[c].peripheral
                          IN  /\ peripherals[i].message_handler
                              /\ peripherals[i].port # None
                              /\ port_to_peripheral[peripherals[i].port] = i
                     /\ message_queue' =
                          Append(message_queue, tasks'[c].msg_bytes)
                     /\ tasks'[c].returned = tasks[c].returned + 1
                /\ (tasks[c].state = "idle" /\ tasks'[c].state = "sleeping") =>
                     /\ message_queue' = message_queue
                     /\ ~tx \/ (/\ tasks'[c].peripheral # None
                                /\ ~peripherals[tasks'[c].peripheral]
                                      .message_handler)
                /\ (tasks[c].state = "sleeping" /\ tasks'[c] # tasks[c]) =>
                     /\ tasks'[c].state = "ready"
                     /\ message_queue' = message_queue
                /\ (tasks[c].state = "ready" /\ tasks'[c] # tasks[c]) =>
                     IF MayPut(c)
                     THEN /\ tasks'[c].state = "idle"
                          /\ tasks'[c].returned = tasks[c].returned + 1
                     ELSE /\ tasks'[c].state = "sleeping"
                          /\ message_queue' = message_queue
         ]_vars

\* a task that sent a command through a peripheral before the hub was
\* connected, and one that called Hub.send_message before, have both
\* returned, and the two commands are on the queue
C34_Witness ==
    \E c, d \in CallerIds :
       /\ tasks[c].returned = 1 /\ tasks[c].peripheral # None
       /\ tasks[c].msg_bytes[3] = None
       /\ tasks[d].returned = 1 /\ tasks[d].peripheral = None
       /\ \E j, k \in 1..Len(message_queue) :
            /\ message_queue[j] = tasks[c].msg_bytes
            /\ message_queue[k] = tasks[d].msg_bytes

(***************************************************************************)
(* Properties of the hub's port meta-data, checked under InfoSpec          *)
(***************************************************************************)
\* the events that follow the parse of a port information or of a mode
\* information
info_received ==
    {"port_info_received", "port_mode_info_received",
     "port_combination_info_received"}

\* the message loop takes one of these events off the queue
InfoReceivedStep ==
    /\ loop_state = "running"
    /\ peripheral_queue # <<>>
    /\ Head(peripheral_queue).msg \in info_received
    /\ peripheral_queue' = Tail(peripheral_queue)

\* C38: whenever the message loop processes a 'port_info_received',
\* 'port_mode_info_received' or 'port_combination_info_received' event of a
\* port p, it has processed an 'update_port' event of p before: on the
\* queue such an event stands right behind the 'update_port' of its port
\* or, at the head, has it behind itself in hub.port_info; so
\* hub.port_info[p] exists and has its 'modes' when the event is processed,
\* the queries that follow a 'port_info_received' are those of its modes,
\* and the loop goes on.
C38_UpdatePortFirst ==
    /\ [](\A k \in 1..Len(peripheral_queue) :
            peripheral_queue[k].msg \in info_received =>
               IF k = 1
               THEN /\ peripheral_queue[k].port \in port_info
                    /\ HubPortInfo[peripheral_queue[k].port].has_modes
               ELSE /\ peripheral_queue[k - 1].msg = "update_port"
                    /\ peripheral_queue[k - 1].port = peripheral_queue[k].port
                    /\ dispatcher_port_info[peripheral_queue[k].port].has_modes)
    /\ [][ InfoReceivedStep =>
             LET ev == Head(peripheral_queue)
             IN  /\ ev.port \in port_info
                 /\ HubPortInfo[ev.port].has_modes
                 /\ loop_state' = "running"
                 /\ (query_port_info /\ ev.msg = "port_info_received") =>
                      /\ Len(message_queue') >= Len(message_queue)
                           + 7 * Len(HubPortInfo[ev.port].modes)
                      /\ \A k \in 1..Len(HubPortInfo[ev.port].modes) :
                           message_queue'[Len(message_queue') - 7 * (k - 1)]
                             = <<0, 34, ev.port,
                                 HubPortInfo[ev.port].modes[
                                    Len(HubPortInfo[ev.port].modes) - (k - 1)
                                 ].mode, 5>> ]_vars

\* the hub that queries its ports has processed the events of a port
\* information, of a combination information and of a mode information of
\* one port
C38_Witness ==
    /\ query_port_info
    /\ loop_state = "running"
    /\ peripheral_queue = <<>>
    /\ \E p \in port_info :
         /\ HubPortInfo[p].has_modes
         /\ HubPortInfo[p].input # None
         /\ HubPortInfo[p].mode_combinations # <<>>
         /\ \E k \in 1..Len(HubPortInfo[p].modes) :
              HubPortInfo[p].modes[k].datasets # None

(***************************************************************************)
(* The end of the program (bricknil.py: _run_all, from the join on)        *)
(***************************************************************************)
\* run_all.pc goes on from "join": "cancel" (before task.cancel() of the
\* message loop of run_all.hub), "cancel_wait" (in that cancel(), waiting
\* for the loop to terminate), "cancel_ble" (before task_ble_q.cancel()),
\* "ble_wait" (in it) and "returned".
next_cancel ==
    IF run_all.hub < NumHubs
    THEN [pc |-> "cancel", hub |-> run_all.hub + 1]
    ELSE [pc |-> "cancel_ble", hub |-> 0]

\* the task of hub.run() returns
RunReturns(h) ==
    /\ hubs[h].run
    /\ ~hubs[h].returned
    /\ hubs' = [hubs EXCEPT ![h].returned = TRUE]
    /\ UNCHANGED <<run_all, message_queue>>

\* a _run_all that would join the task of the first hub only
JoinRunsFirstOnly ==
    /\ run_all.pc = "join"
    /\ hubs[1].returned
    /\ run_all' = [pc |-> "cancel", hub |-> 1]
    /\ UNCHANGED <<hubs, message_queue>>

\* _run_all: `for task in hub_tasks: await task.join()`
JoinRuns ==
    /\ run_all.pc = "join"
    /\ \A h \in Hubs : hubs[h].returned
    /\ run_all' = [pc |-> "cancel", hub |-> 1]
    /\ UNCHANGED <<hubs, message_queue>>

\* _run_all: `await task.cancel()` of the message loop of run_all.hub.  A
\* task that has terminated is left alone; a loop that is blocked in
\* peripheral_queue.get() gets CancelledError there and ends; a loop that
\* is in the ready queue gets it at its next blocking call, and _run_all
\* waits for it.  With events on the queue the loop may be either: woken
\* and ready, or still blocked.
CancelLoop ==
    /\ run_all.pc = "cancel"
    /\ LET h == run_all.hub
       IN  IF hubs[h].loop # "running"
           THEN /\ run_all' = next_cancel
                /\ UNCHANGED hubs
           ELSE \/ /\ hubs' = [hubs EXCEPT ![h].loop = "cancelled"]
                   /\ run_all' = next_cancel
                \/ /\ hubs[h].peripheral_queue # <<>>
                   /\ hubs' = [hubs EXCEPT ![h].cancel_pending = TRUE]
                   /\ run_all' = [run_all EXCEPT !.pc = "cancel_wait"]
    /\ UNCHANGED message_queue

\* peripheral_message_loop of hub h, its cancellation pending, blocks in
\* peripheral_queue.get() on the empty queue: CancelledError is raised
\* there, and the loop ends ('Terminating peripheral')
LoopCancelled(h) ==
    /\ hubs[h].loop = "running"
    /\ hubs[h].cancel_pending
    /\ hubs[h].peripheral_queue = <<>>
    /\ hubs' = [hubs EXCEPT ![h].loop = "cancelled",
                            ![h].cancel_pending = FALSE]
    /\ UNCHANGED <<run_all, message_queue>>

\* _run_all in task.cancel(): the message loop has terminated
CancelJoined ==
    /\ run_all.pc = "cancel_wait"
    /\ hubs[run_all.hub].loop # "running"
    /\ run_all' = next_cancel
    /\ UNCHANGED <<hubs, message_queue>>

\* _run_all: `await task_ble_q.cancel()`
RunAllCancelBLEventQ ==
    /\ run_all.pc = "cancel_ble"
    /\ CancelBLEventQ
    /\ run_all' = [run_all EXCEPT !.pc = "ble_wait"]
    /\ UNCHANGED hubs

\* _run_all in task_ble_q.cancel(): BLEventQ.run has terminated, and
\* _run_all goes on to its end
RunAllReturns ==
    /\ run_all.pc = "ble_wait"
    /\ ble_q.run = "terminated"
    /\ run_all' = [run_all EXCEPT !.pc = "returned"]
    /\ UNCHANGED <<hubs, message_queue>>

shutdown_idle == <<peripherals, port_to_peripheral, peripheral_queue,
                   port_info, dispatcher_port_info, query_port_info,
                   loop_state, handler_calls, l, n_parsed, motor_vars,
                   decl_vars>>

\* the device plugged into port 2 of a hub: a voltage sensor or a light
ShutdownPlugs == { (2 :> 20), (2 :> 8) }

\* Hubs with a VoltageSensor declared on port 2, connected under either
\* BLE library, and _run_all at the first of them
ShutdownSpecInit ==
    /\ hubs \in [Hubs -> {NewHub(<<NewPeripheral("VoltageSensor", 2, TRUE)>>,
                                  plugged) : plugged \in ShutdownPlugs}]
    /\ run_all = [pc |-> "listen", hub |-> 1]
    /\ decl = Called
    /\ MotorInit
    /\ \E USE_BLEAK \in BOOLEAN : TxInit(USE_BLEAK)
    /\ peripherals = [i \in PIdx |-> NewPeripheral("Light", None, FALSE)]
    /\ port_to_peripheral = <<>>
    /\ peripheral_queue = <<>>
    /\ port_info = {}
    /\ dispatcher_port_info = <<>>
    /\ message_queue = <<>>
    /\ query_port_info = FALSE
    /\ loop_state = "running"
    /\ handler_calls = [i \in PIdx |-> 0]
    /\ l = [text |-> "", port |-> None]
    /\ n_parsed = 0

ShutdownNext ==
    \/ \E h \in Hubs : HubNotifies(h) /\ UNCHANGED hubs_idle
    \/ \E h \in Hubs : HubLoop(h) /\ UNCHANGED hubs_idle
    \/ SpawnListen /\ UNCHANGED hubs_idle
    \/ SpawnRun /\ UNCHANGED hubs_idle
    \/ \E h \in Hubs : RunReturns(h) /\ UNCHANGED hubs_idle
    \/ JoinRuns /\ UNCHANGED hubs_idle
    \/ CancelLoop /\ UNCHANGED hubs_idle
    \/ \E h \in Hubs : LoopCancelled(h) /\ UNCHANGED hubs_idle
    \/ CancelJoined /\ UNCHANGED hubs_idle
    \/ RunAllCancelBLEventQ /\ UNCHANGED shutdown_idle
    \/ RunAllReturns /\ UNCHANGED hubs_idle
    \/ BLEventQRun /\ UNCHANGED tx_idle
    \/ BLEventQCancelled /\ UNCHANGED tx_idle
    \/ AsyncioLoop /\ UNCHANGED tx_idle

\* curio runs every task that can run, and the asyncio loop runs; when the
\* hubs notify and when a run() returns is up to them
ShutdownSpec ==
    /\ ShutdownSpecInit
    /\ [][ShutdownNext]_vars
    /\ \A h \in Hubs : WF_vars(HubLoop(h) /\ UNCHANGED hubs_idle)
    /\ WF_vars(SpawnListen /\ UNCHANGED hubs_idle)
    /\ WF_vars(SpawnRun /\ UNCHANGED hubs_idle)
    /\ WF_vars(JoinRuns /\ UNCHANGED hubs_idle)
    /\ WF_vars(CancelLoop /\ UNCHANGED hubs_idle)
    /\ \A h \in Hubs : WF_vars(LoopCancelled(h) /\ UNCHANGED hubs_idle)
    /\ WF_vars(CancelJoined /\ UNCHANGED hubs_idle)
    /\ WF_vars(RunAllCancelBLEventQ /\ UNCHANGED shutdown_idle)
    /\ WF_vars(RunAllReturns /\ UNCHANGED hubs_idle)
    /\ WF_vars(BLEventQRun /\ UNCHANGED tx_idle)
    /\ WF_vars(BLEventQCancelled /\ UNCHANGED tx_idle)
    /\ WF_vars(AsyncioLoop /\ UNCHANGED tx_idle)

(***************************************************************************)
(* Properties of the end of the program, checked under ShutdownSpec        *)
(***************************************************************************)
\* _run_all has left the join of the tasks of hub.run()
PastJoin ==
    run_all.pc \in {"cancel", "cancel_wait", "cancel_ble", "ble_wait",
                    "returned"}

\* _run_all has left the cancellation of the message loops
PastLoops == run_all.pc \in {"cancel_ble", "ble_wait", "returned"}

\* what the message loop of hub h works on
LoopData(h) ==
    <<hubs[h].peripherals, hubs[h].port_to_peripheral, hubs[h].port_info>>

\* the 'quit' request of BLEventQ.run
quit == [msg |-> "quit", val |-> <<>>]

\* C39: _run_all cancels nothing before the run() of every hub has
\* returned; then it cancels the message loop of every hub, and the task
\* of BLEventQ.run only when none of the loops runs any more, and it
\* returns when that task has terminated, which it does once every run()
\* has returned.  The step in which a message loop gets CancelledError
\* takes no event off its queue and sends nothing, and from then on the
\* loop takes no event: the hub's data stay as they are and its queue is
\* only appended to.  With bleak BLEventQ.run puts 'quit' on in_queue when
\* it ends; the asyncio loop that takes it disconnects the devices and is
\* done, after which nothing is written and no request is taken.
C39_Shutdown ==
    /\ [](PastJoin => \A h \in Hubs : hubs[h].returned)
    /\ [](~PastJoin => /\ \A h \in Hubs : /\ hubs[h].loop # "cancelled"
                                          /\ ~hubs[h].cancel_pending
                       /\ ble_q.run = "running"
                       /\ ~ble_q.cancel_pending
                       /\ ~ble_q.done)
    /\ [](PastLoops => \A h \in Hubs : hubs[h].loop # "running")
    /\ [](~PastLoops => ble_q.run = "running" /\ ~ble_q.cancel_pending)
    /\ [](run_all.pc = "returned" =>
            /\ ble_q.run = "terminated"
            /\ IF ble_q.USE_BLEAK
               THEN ble_q.done \/ (in_queue # <<>>
                                   /\ in_queue[Len(in_queue)] = quit)
               ELSE ble_q.disconnected)
    /\ [][ \A h \in Hubs :
             /\ (hubs[h].loop = "running" /\ hubs'[h].loop = "cancelled") =>
                   /\ hubs'[h].peripheral_queue = hubs[h].peripheral_queue
                   /\ LoopData(h)' = LoopData(h)
                   /\ message_queue' = message_queue
             /\ hubs[h].loop = "cancelled" =>
                   /\ hubs'[h].loop = "cancelled"
                   /\ LoopData(h)' = LoopData(h)
                   /\ Len(hubs'[h].peripheral_queue)
                        >= Len(hubs[h].peripheral_queue)
                   /\ SubSeq(hubs'[h].peripheral_queue, 1,
                             Len(hubs[h].peripheral_queue))
                        = hubs[h].peripheral_queue ]_vars
    /\ [][ /\ (ble_q.USE_BLEAK /\ ble_q.run = "running"
                               /\ ble_q'.run = "terminated") =>
                in_queue' = Append(in_queue, quit)
           /\ (~ble_q.done /\ ble_q'.done) =>
                /\ Head(in_queue) = quit
                /\ ble_q'.disconnected
                /\ written' = written
           /\ ble_q.done =>
                /\ ble_q'.done /\ ble_q'.disconnected
                /\ written' = written
                /\ in_queue' = in_queue ]_vars
    /\ (\A h \in Hubs : hubs[h].returned) ~> (run_all.pc = "returned")
    /\ (ble_q.USE_BLEAK /\ run_all.pc = "returned") ~> ble_q.done

\* _run_all has returned under bleak: every run() has returned, a message
\* loop was cancelled with events left on its queue, the activation of a
\* peripheral was written before the 'quit' was served, and the devices
\* are disconnected
C39_Witness ==
    /\ run_all.pc = "returned"
    /\ ble_q.USE_BLEAK
    /\ ble_q.done
    /\ ble_q.disconnected
    /\ written # <<>>
    /\ in_queue = <<>>
    /\ \A h \in Hubs : hubs[h].returned
    /\ \E h \in Hubs : /\ hubs[h].loop = "cancelled"
                       /\ hubs[h].peripheral_queue # <<>>
    /\ \E h \in Hubs : /\ hubs[h].loop = "cancelled"
                       /\ hubs[h].peripheral_queue = <<>>
                       /\ hubs[h].reported = DOMAIN hubs[h].plugged

(***************************************************************************)
(* Properties of the hub button, checked under ConnectSpec                 *)
(***************************************************************************)
\* the peripherals of the class Button that the hub declares
Buttons == {i \in PIdx : peripherals[i].cls = "Button"}

\* the message loop takes the 'attach' event of the hub button
ButtonAttachStep ==
    /\ LoopReady("attach")
    /\ Head(peripheral_queue).port = ButtonPort
    /\ peripheral_queue' = Tail(peripheral_queue)

\* C40: the step that connects the hub puts the events of the attach
\* message of the Button on port 255 on the empty queue, and no
\* notification is parsed before it, the callback being registered by it
\* at the earliest; so the 'attach' of port 255 is at the head of the
\* queue until the loop takes it, and ahead of the events of every
\* notification.  The step of the loop that takes it binds the first
\* Button of the hub to port 255, sets its message_handler and puts
\* [0, 1, 2, 2] on the message queue, and with no Button declared it
\* changes nothing but the queue; the loop goes on either way.
C40_ButtonAttachFirst ==
    /\ [](~tx => /\ peripheral_queue = <<>>
                 /\ n_parsed = 0
                 /\ ~ble_q.notify
                 /\ loop_state = "unspawned")
    /\ []((tx /\ loop_state = "unspawned") =>
            /\ Len(peripheral_queue) >= Len(ButtonAttachEvents)
            /\ SubSeq(peripheral_queue, 1, Len(ButtonAttachEvents))
                 = ButtonAttachEvents)
    /\ [](\A k \in 1..Len(peripheral_queue) :
            /\ (peripheral_queue[k].msg = "attach"
                /\ peripheral_queue[k].port = ButtonPort) => k = 1
            /\ peripheral_queue[k].port # ButtonPort =>
                 /\ n_parsed > 0
                 /\ \A j \in 1..Len(peripheral_queue) :
                      peripheral_queue[j].port = ButtonPort => j < k)
    /\ [][ (~tx /\ tx') => /\ peripheral_queue' = ButtonAttachEvents
                           /\ n_parsed' = 0 ]_vars
    /\ [][ n_parsed' # n_parsed => tx /\ ble_q.notify ]_vars
    /\ [][ ButtonAttachStep =>
             /\ loop_state' = "running"
             /\ IF Buttons # {}
                THEN LET i == Min(Buttons)
                     IN  /\ port_to_peripheral'
                              = Put(port_to_peripheral, ButtonPort, i)
                         /\ peripherals'[i].port = ButtonPort
                         /\ peripherals'[i].message_handler
                         /\ \A j \in PIdx \ {i} :
                              peripherals'[j] = peripherals[j]
                         /\ message_queue'
                              = Append(message_queue, <<0, 1, 2, 2>>)
                ELSE UNCHANGED <<peripherals, port_to_peripheral,
                                 message_queue>> ]_vars

\* the hub that declares a Button has bound it to port 255 and put the
\* activation of the button reports on its queue, and has bound its other
\* peripheral to the port of a notification since
C40_Witness ==
    /\ Buttons # {}
    /\ ButtonPort \in DOMAIN port_to_peripheral
    /\ port_to_peripheral[ButtonPort] = Min(Buttons)
    /\ peripherals[Min(Buttons)].message_handler
    /\ message_queue # <<>>
    /\ message_queue[1] = <<0, 1, 2, 2>>
    /\ n_parsed > 0
    /\ DOMAIN port_to_peripheral # {ButtonPort}

====
